---- MODULE Spec2Model ----
(***************************************************************************)
(* A model of the godlp engine: lifecycle (configured / log-only /        *)
(* closed), line preprocessing, byte and key/value detection, result      *)
(* merging, masking and de-identification of text, maps and JSON.         *)
(* Texts, keys and values are sequences of byte values.                    *)
(***************************************************************************)
EXTENDS Integers, Sequences, FiniteSets, TLC

VARIABLES
    isConfigured,  \* Engine.isConfigured
    isClosed,      \* Engine.isClosed
    isForLog,      \* Engine.isForLog
    confObj,       \* index of the configuration held by the engine, 0 = none
    detectorMap,   \* rule id -> detector (Engine.detectorMap)
    maskerMap,     \* mask name -> worker (Engine.maskerMap)
    DefMaxRegexRuleID, \* package variable: the regex rule cutoff of log mode
    DefMaxLogInput, \* package variable: the text limit of the log processor
    other,         \* a second Engine of the process: its fields
    pc,            \* "idle": ready for a call, "done": a call has returned
    call,          \* the last public call: operation, input and outcome
    mIn,           \* single-function specifications: the input of the function
    mOut           \* single-function specifications: what the function returned

vars == <<isConfigured, isClosed, isForLog, confObj, detectorMap, maskerMap,
          DefMaxRegexRuleID, DefMaxLogInput, other, pc, call, mIn, mOut>>

engineVars == <<isConfigured, isClosed, isForLog, confObj, detectorMap, maskerMap,
                DefMaxRegexRuleID, DefMaxLogInput, other>>

(***************************************************************************)
(* Bounds of the model.                                                    *)
(***************************************************************************)
MaxTokens == 3     \* longest input text, in tokens of the alphabet
MaxMapSize == 2    \* most entries of a concrete input map
MaxRaw == 3        \* most raw results handed to one merge pass

(***************************************************************************)
(* Byte values.                                                            *)
(***************************************************************************)
ChLF == 10
ChSpace == 32
ChStar == 42
ChHash == 35
ChSlash == 47
ChDigit1 == 49
ChColon == 58
ChEq == 61
ChUpperK == 75
ChLBracket == 91
ChBackslash == 92
ChRBracket == 93
ChLowerK == 107
ChLowerX == 120
ChLBrace == 123
ChRBrace == 125
ChLt == 60
ChGt == 62
ChQuote == 34

\* the UTF-8 encoding of U+FF1A (full-width colon)
WideColon == <<239, 188, 154>>

Digits == 48..57
UpperLetters == 65..90
LowerLetters == 97..122
\* the characters of the ignore kinds WHITESPACE and PUNCTUATION (no
\* backslash among them)
WhiteSpace == {9, 10, 11, 12, 13, 32}
Punctuation == (33..47) \cup (58..64) \cup {91, 93, 94, 95, 96} \cup (123..126)

(***************************************************************************)
(* Generic helpers on sequences.                                           *)
(***************************************************************************)
Range(s) == {s[i] : i \in DOMAIN s}

Min(a, b) == IF a < b THEN a ELSE b

Max(a, b) == IF a < b THEN b ELSE a

\* Go slice s[lo:hi] with 0-based half-open bounds
Slice(s, lo, hi) == SubSeq(s, lo + 1, hi)

RECURSIVE Flatten(_)
Flatten(ss) == IF ss = <<>> THEN <<>> ELSE Head(ss) \o Flatten(Tail(ss))

RECURSIVE SeqsUpTo(_, _)
SeqsUpTo(S, n) ==
    IF n = 0 THEN {<<>>}
    ELSE LET shorter == SeqsUpTo(S, n - 1)
         IN shorter \cup {Append(s, x) : s \in {t \in shorter : Len(t) = n - 1}, x \in S}

\* all orderings of the elements of a sequence (by index)
RECURSIVE PermsOf(_)
PermsOf(I) ==
    IF I = {} THEN {<<>>}
    ELSE UNION {{<<i>> \o p : p \in PermsOf(I \ {i})} : i \in I}

\* strings.ToLower on ASCII bytes
ToLowerByte(b) == IF b \in UpperLetters THEN b + 32 ELSE b

ToLower(s) == [i \in DOMAIN s |-> ToLowerByte(s[i])]

\* bytes.Index / strings.Index: 0-based position of the first occurrence, -1 if none
RECURSIVE IndexFrom(_, _, _)
IndexFrom(s, w, from) ==
    IF from + Len(w) > Len(s) THEN -1
    ELSE IF Slice(s, from, from + Len(w)) = w THEN from
    ELSE IndexFrom(s, w, from + 1)

\* strings.LastIndexByte
RECURSIVE LastIndexByteFrom(_, _, _)
LastIndexByteFrom(s, b, i) ==
    IF i < 1 THEN -1
    ELSE IF s[i] = b THEN i - 1
    ELSE LastIndexByteFrom(s, b, i - 1)

LastIndexByte(s, b) == LastIndexByteFrom(s, b, Len(s))

(***************************************************************************)
(* Preprocessing of a line (sdk_detect.go).                                *)
(***************************************************************************)
\* the byte an escape \c decodes to; unknown escapes give a space
EscapeValue(c) ==
    CASE c = 97 -> 7
      [] c = 98 -> 8
      [] c = 102 -> 12
      [] c = 110 -> 10
      [] c = 114 -> 13
      [] c = 116 -> 9
      [] c = 118 -> 11
      [] c = 92 -> 92
      [] c = 34 -> 34
      [] c = 39 -> 39
      [] OTHER -> ChSpace

RECURSIVE unquoteFrom(_, _)
unquoteFrom(lineArray, i) ==
    IF i > Len(lineArray) THEN lineArray
    ELSE IF lineArray[i] = ChBackslash /\ i + 1 <= Len(lineArray)
         THEN unquoteFrom([lineArray EXCEPT ![i] = ChSpace,
                                            ![i + 1] = EscapeValue(lineArray[i + 1])], i + 2)
         ELSE unquoteFrom(lineArray, i + 1)

\* an unquoting that drops each backslash instead of blanking it
unquoteEscapeCharDropsBackslash(lineArray) ==
    SelectSeq(unquoteFrom(lineArray, 1), LAMBDA b : b # ChSpace)

unquoteEscapeChar(lineArray) == unquoteFrom(lineArray, 1)

IsCont(b) == b \in 128..191

\* utf8.DecodeRune on s[i:] (i is 0-based): the rune and its width in bytes
DecodeRune(s, i) ==
    LET n == Len(s) - i
        b0 == s[i + 1]
        b1 == s[i + 2]
        b2 == s[i + 3]
        b3 == s[i + 4]
        bad == [r |-> 65533, width |-> 1]
    IN IF n <= 0 THEN [r |-> 65533, width |-> 0]
       ELSE IF b0 < 128 THEN [r |-> b0, width |-> 1]
       ELSE IF b0 \in 194..223
            THEN IF n >= 2 /\ IsCont(b1)
                 THEN [r |-> (b0 - 192) * 64 + (b1 - 128), width |-> 2] ELSE bad
       ELSE IF b0 \in 224..239
            THEN IF n >= 3 /\ IsCont(b1) /\ IsCont(b2)
                    /\ (b0 = 224 => b1 >= 160) /\ (b0 = 237 => b1 <= 159)
                 THEN [r |-> (b0 - 224) * 4096 + (b1 - 128) * 64 + (b2 - 128), width |-> 3]
                 ELSE bad
       ELSE IF b0 \in 240..244
            THEN IF n >= 4 /\ IsCont(b1) /\ IsCont(b2) /\ IsCont(b3)
                    /\ (b0 = 240 => b1 >= 144) /\ (b0 = 244 => b1 <= 143)
                 THEN [r |-> (b0 - 240) * 262144 + (b1 - 128) * 4096
                              + (b2 - 128) * 64 + (b3 - 128), width |-> 4]
                 ELSE bad
       ELSE bad

\* the full-width punctuation runes and their three-byte replacements
wideCharMap ==
    (12304 :> <<32, 32, 91>>) @@ (12305 :> <<93, 32, 32>>) @@ (65306 :> <<32, 32, 58>>)
 @@ (12300 :> <<32, 32, 123>>) @@ (12301 :> <<125, 32, 32>>) @@ (65288 :> <<32, 32, 40>>)
 @@ (65289 :> <<41, 32, 32>>) @@ (12298 :> <<32, 32, 60>>) @@ (12299 :> <<62, 32, 32>>)
 @@ (12290 :> <<46, 32, 32>>) @@ (65311 :> <<63, 32, 32>>) @@ (65281 :> <<33, 32, 32>>)
 @@ (65292 :> <<44, 32, 32>>) @@ (12289 :> <<44, 32, 32>>) @@ (65307 :> <<59, 32, 32>>)

RECURSIVE replaceWideFrom(_, _)
replaceWideFrom(lineArray, i) ==
    IF i >= Len(lineArray) THEN lineArray
    ELSE IF lineArray[i + 1] < 128 THEN replaceWideFrom(lineArray, i + 1)
    ELSE LET at(d) ==
                IF d.width = 0 THEN lineArray
                ELSE IF d.r \in DOMAIN wideCharMap
                     THEN replaceWideFrom(
                            [k \in DOMAIN lineArray |->
                                IF k - 1 >= i /\ k - 1 < i + d.width
                                   /\ k - i <= Len(wideCharMap[d.r])
                                THEN wideCharMap[d.r][k - i] ELSE lineArray[k]],
                            i + d.width)
                     ELSE replaceWideFrom(lineArray, i + d.width)
         IN at(DecodeRune(lineArray, i))

replaceWideChar(lineArray) == replaceWideFrom(lineArray, 0)

detectPre(line) == replaceWideChar(unquoteEscapeChar(line))

\* bufio.Reader.ReadBytes('\n') until EOF: the newline-terminated blocks of the
\* text, the trailing partial block included
RECURSIVE ReadLines(_)
ReadLines(text) ==
    IF text = <<>> THEN <<>>
    ELSE LET p == IndexFrom(text, <<ChLF>>, 0)
         IN IF p = -1 THEN <<text>>
            ELSE <<Slice(text, 0, p + 1)>> \o ReadLines(Slice(text, p + 1, Len(text)))

(***************************************************************************)
(* Inline key/value extraction (sdk_detect.go).                            *)
(***************************************************************************)
\* " /\r\n\\[](){}:=\"',"
DefCutter == {32, 47, 13, 10, 92, 91, 93, 40, 41, 123, 125, 58, 61, 34, 39, 44}

isEqualChar(r) == r = ChColon \/ r = ChEq \/ r = 65306

\* least i in lo..hi-1 (0-based) with P(line[i]), or -1
RECURSIVE ScanUp(_, _, _, _)
ScanUp(line, i, hi, wantCutter) ==
    IF i >= hi THEN -1
    ELSE IF (line[i + 1] \in DefCutter) = wantCutter THEN i
    ELSE ScanUp(line, i + 1, hi, wantCutter)

\* greatest i in 0..from (0-based) with P(line[i]), or -1
RECURSIVE ScanDown(_, _, _)
ScanDown(line, i, wantCutter) ==
    IF i < 0 THEN -1
    ELSE IF (line[i + 1] \in DefCutter) = wantCutter THEN i
    ELSE ScanDown(line, i - 1, wantCutter)

firstToken(line, offset) ==
    LET sz == Len(line)
    IN IF offset >= 0 /\ offset < sz
       THEN LET token(st, c) ==
                    [tok |-> Slice(line, st, IF c = -1 THEN sz ELSE c),
                     st |-> st, ed |-> IF c = -1 THEN sz ELSE c]
                from(st) == token(st, ScanUp(line, st + 1, sz, TRUE))
                skip(f) == from(IF f = -1 THEN offset ELSE f)
            IN skip(ScanUp(line, offset, sz, FALSE))
       ELSE [tok |-> <<>>, st |-> -1, ed |-> -1]

lastToken(line, offset) ==
    LET sz == Len(line)
    IN IF offset >= 0 /\ offset < sz
       THEN LET token(ed, c) ==
                    [tok |-> Slice(line, IF c = -1 THEN 0 ELSE c + 1, ed),
                     st |-> IF c = -1 THEN 0 ELSE c + 1, ed |-> ed]
                upto(ed) == token(ed, ScanDown(line, ed - 1, TRUE))
                skip(f) == upto(IF f = -1 THEN offset ELSE f + 1)
            IN skip(ScanDown(line, offset - 1, FALSE))
       ELSE [tok |-> <<>>, st |-> -1, ed |-> -1]

RECURSIVE extractKVFrom(_, _)
extractKVFrom(line, i) ==
    LET sz == Len(line)
        item(r, left, right) ==
            IF i + 1 < sz /\ isEqualChar(r) /\ Len(left.tok) # 0 /\ Len(right.tok) # 0
            THEN <<[Key |-> ToLower(left.tok), Value |-> right.tok,
                    Start |-> right.st, End |-> right.ed]>>
            ELSE <<>>
        at(d, nx) ==
            IF i >= sz \/ d.width = 0 THEN <<>>
            ELSE item(d.r, lastToken(line, i),
                      firstToken(line,
                                 IF i + 2 < sz /\ nx.r = ChEq /\ nx.width > 0
                                 THEN i + d.width + nx.width ELSE i + d.width))
                    \o extractKVFrom(line, i + d.width)
        next(d) == at(d, DecodeRune(line, i + d.width))
    IN next(DecodeRune(line, i))

extractKVList(line) == extractKVFrom(line, 0)

(***************************************************************************)
(* Detector (detector.go).  A detector d is the record of its rule:        *)
(* RuleID, InfoType, Mask, KDict, KReg, VReg, VDict, BDict, BReg, BAlgo.   *)
(* A regex is [kind, cls]: "plus" is [cls]+, "bol" is ^ and "eol" is $.    *)
(***************************************************************************)
ADDRESS == <<65, 68, 68, 82, 69, 83, 83>>

IsKV(d) == ~(d.KDict = {} /\ Len(d.KReg) = 0)

IsValue(d) == d.KDict = {} /\ Len(d.KReg) = 0

UseRegex(d) == Len(d.KReg) > 0 \/ Len(d.VReg) > 0

\* the maximal runs of bytes of cls in s, from 0-based position i on
RECURSIVE RunsFrom(_, _, _)
RunsFrom(s, cls, i) ==
    IF i >= Len(s) THEN <<>>
    ELSE IF s[i + 1] \notin cls THEN RunsFrom(s, cls, i + 1)
    ELSE LET stop == CHOOSE e \in (i + 1)..Len(s) :
                        /\ \A k \in (i + 1)..e : s[k] \in cls
                        /\ (e = Len(s) \/ s[e + 1] \notin cls)
         IN <<<<i, stop>>>> \o RunsFrom(s, cls, stop)

\* regexp.FindAllIndex(s, -1): the leftmost non-overlapping matches
FindAllIndex(re, s) ==
    CASE re.kind = "plus" -> RunsFrom(s, re.cls, 0)
      [] re.kind = "bol" -> <<<<0, 0>>>>
      [] re.kind = "eol" -> <<<<Len(s), Len(s)>>>>

\* regexp.Match
Match(re, s) == FindAllIndex(re, s) # <<>>

newResult(d) ==
    [RuleID |-> d.RuleID, InfoType |-> d.InfoType, Text |-> <<>>, MaskText |-> <<>>,
     ResultType |-> "", Key |-> <<>>, ByteStart |-> 0, ByteEnd |-> 0]

createValueResult(d, inputBytes, pos) ==
    [newResult(d) EXCEPT !.Text = Slice(inputBytes, pos[1], pos[2]),
                         !.ResultType = "VALUE",
                         !.ByteStart = pos[1], !.ByteEnd = pos[2]]

createKVResult(d, inK, inV) ==
    [newResult(d) EXCEPT !.Text = inV, !.ResultType = "KV",
                         !.ByteStart = 0, !.ByteEnd = Len(inV), !.Key = inK]

regexDetectBytes(d, re, inputBytes) ==
    LET create(ret) == [i \in DOMAIN ret |-> createValueResult(d, inputBytes, ret[i])]
    IN create(FindAllIndex(re, inputBytes))

\* the word is not empty
RECURSIVE dictDetectFrom(_, _, _, _)
dictDetectFrom(d, word, inputBytes, currStart) ==
    IF currStart >= Len(inputBytes) THEN <<>>
    ELSE LET at(start) ==
                IF start = -1 THEN <<>>
                ELSE <<createValueResult(d, inputBytes, <<start, start + Len(word)>>)>>
                     \o dictDetectFrom(d, word, inputBytes, start + Len(word))
         IN at(IndexFrom(inputBytes, word, currStart))

dictDetectBytes(d, word, inputBytes) == dictDetectFrom(d, word, inputBytes, 0)

\* strings.IndexAny(in, "*#") != -1
IsMasked(in) == \E i \in DOMAIN in : in[i] \in {ChStar, ChHash}

filterBDict(d, text) == text \in d.BDict

filterBReg(d, text) == \E k \in DOMAIN d.BReg : Match(d.BReg[k], text)

filterBAlgo(d, text) == "MASKED" \in d.BAlgo /\ IsMasked(text)

filter(d, in) ==
    SelectSeq(in, LAMBDA res : ~(filterBDict(d, res.Text) \/ filterBReg(d, res.Text)
                                 \/ filterBAlgo(d, res.Text)))

\* the rules of the model carry no verify section (no c_dict, c_reg, v_algo):
\* every mark stays true
verify(d, inputBytes, in) == in

\* the loop over VReg; an ADDRESS rule stops at the first regex with a hit
RECURSIVE regexLoop(_, _, _)
regexLoop(d, inputBytes, k) ==
    IF k > Len(d.VReg) THEN <<>>
    ELSE LET more(ret) ==
                IF Len(ret) > 0 /\ d.InfoType = ADDRESS THEN ret
                ELSE ret \o regexLoop(d, inputBytes, k + 1)
         IN more(regexDetectBytes(d, d.VReg[k], inputBytes))

RECURSIVE dictLoop(_, _, _)
dictLoop(d, inputBytes, k) ==
    IF k > Len(d.VDict) THEN <<>>
    ELSE dictDetectBytes(d, d.VDict[k], inputBytes) \o dictLoop(d, inputBytes, k + 1)

DetectBytes(d, inputBytes) ==
    verify(d, inputBytes,
           filter(d, regexLoop(d, inputBytes, 1) \o dictLoop(d, inputBytes, 1)))

\* getLastKey: the last segment of a path, whether it was extracted, and
\* whether the index expressions of the code are out of range (panic)
getLastKey(path) ==
    LET sz == Len(path)
        last(st, ed) ==
            IF sz = 0 THEN [key |-> <<>>, ext |-> FALSE, panic |-> TRUE]
            ELSE IF path[sz] = ChRBracket
                 THEN IF ed < st + 1 THEN [key |-> <<>>, ext |-> TRUE, panic |-> TRUE]
                      ELSE [key |-> Slice(path, st + 1, ed), ext |-> TRUE, panic |-> FALSE]
            ELSE IF st = -1 THEN [key |-> path, ext |-> FALSE, panic |-> FALSE]
            ELSE [key |-> Slice(path, st + 1, sz), ext |-> TRUE, panic |-> FALSE]
    IN last(LastIndexByte(path, ChSlash), LastIndexByte(path, ChLBracket))

keyHit(d, kvItem) ==
    LET hit(lk) ==
            \/ lk.key \in d.KDict
            \/ (lk.ext /\ kvItem.Key \in d.KDict)
            \/ \E k \in DOMAIN d.KReg : Match(d.KReg[k], lk.key)
    IN hit(getLastKey(kvItem.Key))

shift(res, by) == [res EXCEPT !.ByteStart = @ + by, !.ByteEnd = @ + by]

\* the results doDetectKV appends for one item (the key does not panic)
doDetectKV(d, kvItem) ==
    LET value == kvItem.Value
        conv(vResults, resultType) ==
            verify(d, value,
                   [i \in DOMAIN vResults |->
                       shift([vResults[i] EXCEPT !.ResultType = resultType,
                                                 !.Key = kvItem.Key], kvItem.Start)])
        byKey(vResults) ==
            IF IsKV(d)
            THEN IF ~keyHit(d, kvItem) THEN <<>>
                 ELSE IF Len(d.VDict) = 0 /\ Len(d.VReg) = 0
                      THEN verify(d, value,
                                  <<shift(createKVResult(d, kvItem.Key, value),
                                          kvItem.Start)>>)
                      ELSE conv(vResults, "KV")
            ELSE conv(vResults, "VALUE")
    IN byKey(DetectBytes(d, value))

DetectListRaw(d, kvList) ==
    Flatten([i \in DOMAIN kvList |-> doDetectKV(d, kvList[i])])

DetectList(d, kvList) == filter(d, DetectListRaw(d, kvList))

\* Detector.DetectMap over the pairs of the map in the iteration order keys
DetectorDetectMap(d, inputMap, keys) ==
    filter(d, Flatten([i \in DOMAIN keys |->
                doDetectKV(d, [Key |-> keys[i], Value |-> inputMap[keys[i]],
                               Start |-> 0, End |-> 0])]))

(***************************************************************************)
(* Mask workers (mask.go, sdk_mask.go).  A worker is the record of its     *)
(* mask rule: RuleName, MaskType, Value, Offset, Padding, Length, Reverse, *)
(* IgnoreCharSet; a DIY worker has MaskType "DIY" and its function in Func.*)
(* Mask operators return [out, err, panic].                                *)
(***************************************************************************)
Ret(out, err) == [out |-> out, err |-> err, panic |-> FALSE]

Panicked == [out |-> <<>>, err |-> "nil", panic |-> TRUE]

\* the forward loop of maskCharImpl from position i (0-based)
RECURSIVE maskCharFwd(_, _, _, _, _, _)
maskCharFwd(w, out, ch, i, ed, cnt) ==
    IF i >= ed \/ (w.Length > 0 /\ cnt >= w.Length) THEN out
    ELSE maskCharFwd(w, IF out[i + 1] \notin w.IgnoreCharSet
                        THEN [out EXCEPT ![i + 1] = ch] ELSE out,
                     ch, i + 1, ed, cnt + 1)

\* the reverse loop of maskCharImpl; out[i] with i = len(out) is out of range
RECURSIVE maskCharRev(_, _, _, _, _, _)
maskCharRev(w, out, ch, i, st, cnt) ==
    IF i < st \/ (w.Length > 0 /\ cnt >= w.Length) THEN Ret(out, "nil")
    ELSE IF i >= Len(out) THEN Panicked
    ELSE maskCharRev(w, IF out[i + 1] \notin w.IgnoreCharSet
                        THEN [out EXCEPT ![i + 1] = ch] ELSE out,
                     ch, i - 1, st, cnt + 1)

maskCharImpl(w, in) ==
    LET ch == IF Len(w.Value) > 0 THEN w.Value[1] ELSE ChStar
        sz == Len(in)
    IN IF ~w.Reverse
       THEN Ret(maskCharFwd(w, in, ch,
                            IF w.Offset >= 0 THEN w.Offset ELSE 0,
                            IF w.Padding >= 0 THEN sz - w.Padding ELSE sz, 0), "nil")
       ELSE maskCharRev(w, in, ch,
                        IF w.Offset >= 0 THEN sz - 1 - w.Offset ELSE sz,
                        IF w.Padding >= 0 THEN w.Padding ELSE 0, 0)

maskTagImpl(infoType) == Ret(<<ChLt>> \o infoType \o <<ChGt>>, "nil")

maskReplaceImpl(w) == Ret(w.Value, "nil")

maskNumberImpl(in) == [i \in DOMAIN in |-> IF in[i] \in Digits THEN ChStar ELSE in[i]]

\* "NUMBER"
AlgoNumber == <<78, 85, 77, 66, 69, 82>>

\* the algorithms of the model's mask rules: NUMBER, or a value that is not supported
maskAlgoImpl(w, in) ==
    IF w.Value = AlgoNumber THEN Ret(maskNumberImpl(in), "nil")
    ELSE Ret(in, "ErrMaskNotSupport")

\* a registered function: "stars" masks every byte, "fail" returns an
\* error, "nilfunc" is a nil function value (calling it panics)
DIYMask(w, in) ==
    CASE w.Func = "stars" -> Ret([i \in DOMAIN in |-> ChStar], "nil")
      [] w.Func = "fail" -> Ret(in, "ErrDIY")
      [] OTHER -> Panicked

\* Worker.Mask and DIYMaskWorker.Mask, given what maskStrTagImpl returns
WorkerMask(w, in, tagged) ==
    CASE w.MaskType = "CHAR" -> maskCharImpl(w, in)
      [] w.MaskType = "TAG" -> tagged
      [] w.MaskType = "REPLACE" -> maskReplaceImpl(w)
      [] w.MaskType = "ALGO" -> maskAlgoImpl(w, in)
      [] w.MaskType = "DIY" -> DIYMask(w, in)
      [] OTHER -> Ret(in, "ErrMaskNotSupport")

\* Worker.MaskResult and DIYMaskWorker.MaskResult: the result with its
\* MaskText, or a panic
MaskResult(w, res) ==
    LET set(m) ==
            IF m.panic THEN [res |-> res, panic |-> TRUE]
            ELSE IF w.MaskType = "DIY" /\ m.err # "nil" THEN [res |-> res, panic |-> FALSE]
            ELSE [res |-> [res EXCEPT !.MaskText = m.out], panic |-> FALSE]
    IN set(WorkerMask(w, res.Text, maskTagImpl(res.InfoType)))

(***************************************************************************)
(* Engine internals (sdk_detect.go, sdk_de_identify.go).  dm is the        *)
(* detector map (rule id -> detector), mm the masker map, forLog the       *)
(* log-only flag and maxId the regex rule cutoff of log mode.              *)
(***************************************************************************)
\* the rule ids of a detector map in ascending order; results that tie in
\* the sort order come from one rule, so the order in which the map is
\* walked does not reach the merged list
RECURSIVE SortedIds(_)
SortedIds(S) ==
    IF S = {} THEN <<>>
    ELSE LET m == CHOOSE x \in S : \A y \in S : x <= y
         IN <<m>> \o SortedIds(S \ {m})

skipForLog(d, forLog, maxId) == forLog /\ d.RuleID > maxId /\ UseRegex(d)

detectBytes(dm, forLog, maxId, line) ==
    LET each(ids) ==
            Flatten([i \in DOMAIN ids |->
                IF IsValue(dm[ids[i]]) /\ ~skipForLog(dm[ids[i]], forLog, maxId)
                THEN DetectBytes(dm[ids[i]], line) ELSE <<>>])
    IN each(SortedIds(DOMAIN dm))

detectKVList(dm, forLog, maxId, kvList) ==
    LET asValue(rs) == [k \in DOMAIN rs |-> [rs[k] EXCEPT !.ResultType = "VALUE"]]
        each(ids) ==
            Flatten([i \in DOMAIN ids |->
                IF IsKV(dm[ids[i]]) /\ ~skipForLog(dm[ids[i]], forLog, maxId)
                THEN asValue(DetectList(dm[ids[i]], kvList)) ELSE <<>>])
    IN each(SortedIds(DOMAIN dm))

\* ResultList.Less
Less(a, b) ==
    \/ a.ByteStart < b.ByteStart
    \/ /\ a.ByteStart = b.ByteStart
       /\ \/ a.ByteEnd < b.ByteEnd
          \/ (a.ByteEnd = b.ByteEnd /\ a.RuleID < b.RuleID)

\* a containment test that misses spans sharing an end
ContainStrict(a, b) == a.Key = b.Key /\ a.ByteStart < b.ByteStart /\ b.ByteEnd < a.ByteEnd

\* ResultList.Contain
Contain(a, b) == a.Key = b.Key /\ a.ByteStart <= b.ByteStart /\ b.ByteEnd <= a.ByteEnd

\* ResultList.Equal
Equal(a, b) == a.ByteStart = b.ByteStart /\ b.ByteEnd = a.ByteEnd /\ a.Key = b.Key

\* one pass of insertion: x moves left while it is less than its neighbour
RECURSIVE InsertLeft(_, _)
InsertLeft(sorted, x) ==
    IF sorted = <<>> THEN <<x>>
    ELSE IF Less(x, sorted[Len(sorted)])
         THEN Append(InsertLeft(SubSeq(sorted, 1, Len(sorted) - 1), x), sorted[Len(sorted)])
         ELSE Append(sorted, x)

\* sort.Sort on a list of at most 12 elements is an insertion sort
RECURSIVE SortResults(_)
SortResults(total) ==
    IF total = <<>> THEN <<>>
    ELSE InsertLeft(SortResults(SubSeq(total, 1, Len(total) - 1)), total[Len(total)])

\* the marking loops of mergeResults: markInner is the loop over j for a
\* marked i, markOuter the loop over i
RECURSIVE markOuter(_, _, _), markInner(_, _, _, _)
markOuter(total, mark, i) ==
    IF i > Len(total) THEN mark
    ELSE IF ~mark[i] THEN markOuter(total, mark, i + 1)
    ELSE markInner(total, mark, i, i + 1)

markInner(total, mark, i, j) ==
    IF j > Len(total) THEN markOuter(total, mark, i + 1)
    ELSE IF ~mark[j] THEN markInner(total, mark, i, j + 1)
    ELSE IF Equal(total[i], total[j]) THEN markOuter(total, [mark EXCEPT ![i] = FALSE], i + 1)
    ELSE LET outer(m) == IF Contain(total[j], total[i]) THEN [m EXCEPT ![i] = FALSE] ELSE m
         IN markInner(total,
                      outer(IF Contain(total[i], total[j])
                            THEN [mark EXCEPT ![j] = FALSE] ELSE mark),
                      i, j + 1)

Keep(total, mark) ==
    LET pick(idx) == [k \in DOMAIN idx |-> total[idx[k]]]
    IN pick(SelectSeq([i \in DOMAIN total |-> i], LAMBDA i : mark[i]))

mergeResults(a, b) ==
    LET reduce(sorted) == Keep(sorted, markOuter(sorted, [i \in DOMAIN sorted |-> TRUE], 1))
        merge(total) == IF Len(total) = 0 THEN total ELSE reduce(SortResults(total))
    IN merge(IF Len(a) = 0 THEN b ELSE IF Len(b) = 0 THEN a ELSE a \o b)

detectProcess(dm, forLog, maxId, line) ==
    mergeResults(detectBytes(dm, forLog, maxId, line),
                 detectKVList(dm, forLog, maxId, extractKVList(line)))

aJustResultPos(results, currPos) ==
    IF currPos > 0 THEN [i \in DOMAIN results |-> shift(results[i], currPos)] ELSE results

\* maskResults: every result gets its MaskText from the worker bound to its
\* rule, or its Text when no worker has that name; a worker may panic
maskResults(dm, mm, results) ==
    LET one(res) ==
            IF res.RuleID \notin DOMAIN dm THEN [res |-> res, panic |-> FALSE]
            ELSE IF dm[res.RuleID].Mask \in DOMAIN mm
                 THEN MaskResult(mm[dm[res.RuleID].Mask], res)
                 ELSE [res |-> [res EXCEPT !.MaskText = res.Text], panic |-> FALSE]
        all(masked) ==
            [results |-> [i \in DOMAIN masked |-> masked[i].res],
             panic |-> \E i \in DOMAIN masked : masked[i].panic]
    IN all([i \in DOMAIN results |-> one(results[i])])

detectPost(dm, mm, results, currPos) == maskResults(dm, mm, aJustResultPos(results, currPos))

\* the loop of detectImpl over the blocks lines[k..], currPos bytes consumed
RECURSIVE detectLines(_, _, _, _, _, _, _)
detectLines(dm, mm, forLog, maxId, lines, k, currPos) ==
    IF k > Len(lines) THEN [results |-> <<>>, panic |-> FALSE]
    ELSE LET append(post, rest) ==
                IF post.panic THEN [results |-> <<>>, panic |-> TRUE]
                ELSE [results |-> post.results \o rest.results, panic |-> rest.panic]
             block(newLine) ==
                append(detectPost(dm, mm, detectProcess(dm, forLog, maxId, newLine), currPos),
                       detectLines(dm, mm, forLog, maxId, lines, k + 1,
                                   currPos + Len(newLine)))
         IN block(detectPre(lines[k]))

detectImpl(dm, mm, forLog, maxId, inputText) ==
    detectLines(dm, mm, forLog, maxId, ReadLines(inputText), 1, 0)

\* detectMapImpl with the map walked in the order keys; getLastKey panics
\* on a key it cannot index
detectMapImpl(dm, mm, inputMap, keys) ==
    LET each(ids) ==
            Flatten([i \in DOMAIN ids |-> DetectorDetectMap(dm[ids[i]], inputMap, keys)])
    IN IF dm # <<>> /\ \E k \in DOMAIN inputMap : getLastKey(k).panic
       THEN [results |-> <<>>, panic |-> TRUE]
       ELSE maskResults(dm, mm, mergeResults(each(SortedIds(DOMAIN dm)), <<>>))

\* deIdentifyByResult: the loop over arr[k..] from input position pos; a
\* slice in[pos:ByteStart] past the end of in is out of range
RECURSIVE deIdentifyFrom(_, _, _, _)
deIdentifyFrom(in, arr, k, pos) ==
    IF k > Len(arr)
    THEN [out |-> IF pos < Len(in) THEN Slice(in, pos, Len(in)) ELSE <<>>, panic |-> FALSE]
    ELSE LET write(res, rest) ==
                IF pos < res.ByteStart /\ res.ByteStart > Len(in)
                THEN [out |-> <<>>, panic |-> TRUE]
                ELSE [out |-> (IF pos < res.ByteStart THEN Slice(in, pos, res.ByteStart)
                               ELSE <<>>) \o res.MaskText \o rest.out,
                      panic |-> rest.panic]
         IN write(arr[k], deIdentifyFrom(in, arr, k + 1, arr[k].ByteEnd))

deIdentifyByResult(in, arr) == deIdentifyFrom(in, arr, 1, 0)

deIdentifyImpl(dm, mm, forLog, maxId, inputText) ==
    LET mask(det, out) ==
            IF det.panic THEN [out |-> <<>>, results |-> <<>>, panic |-> TRUE]
            ELSE [out |-> out.out, results |-> det.results, panic |-> out.panic]
        byResult(det) == mask(det, deIdentifyByResult(inputText, det.results))
    IN byResult(detectImpl(dm, mm, forLog, maxId, inputText))

(***************************************************************************)
(* Program constants (sdk.go).                                             *)
(***************************************************************************)
DefMaxInput == 1048576
DefMaxItem == 4096
DefMaxCallDeep == 5
DefaultMaxLogInput == 1024
DefaultMaxLogItem == 16
\* "<--[DLP] Log Limit Exceeded-->" and the key it is appended under
DefaultLimitError ==
    <<60, 45, 45, 91, 68, 76, 80, 93, 32, 76, 111, 103, 32, 76, 105, 109, 105, 116, 32,
      69, 120, 99, 101, 101, 100, 101, 100, 45, 45, 62>>
LimitErrorKey == <<60, 45, 45, 91, 68, 76, 80, 32, 69, 114, 114, 111, 114, 93, 45, 45, 62>>

(***************************************************************************)
(* The configurations of the model.                                        *)
(***************************************************************************)
Rule(id, info, mask, kdict, vreg, vdict) ==
    [RuleID |-> id, InfoType |-> info, Mask |-> mask, KDict |-> kdict, KReg |-> <<>>,
     VReg |-> vreg, VDict |-> vdict, BDict |-> {}, BReg |-> <<>>, BAlgo |-> {"MASKED"}]

MaskRule(name, type, value, offset, padding, length, reverse) ==
    [RuleName |-> name, MaskType |-> type, Value |-> value, Offset |-> offset,
     Padding |-> padding, Length |-> length, Reverse |-> reverse,
     IgnoreCharSet |-> {}, IgnoreKind |-> {}, Func |-> ""]

\* the characters NewWorker adds to IgnoreCharSet for one ignore kind
IgnoreKindChars(kind) ==
    CASE kind = "NUMERIC" -> Digits
      [] kind = "ALPHA_LOWER_CASE" -> LowerLetters
      [] kind = "ALPHA_UPPER_CASE" -> UpperLetters
      [] kind = "WHITESPACE" -> WhiteSpace
      [] kind = "PUNCTUATION" -> Punctuation
      [] OTHER -> {}

\* NewWorker: the rule with the characters of its ignore kinds added
NewWorker(rule) ==
    [rule EXCEPT !.IgnoreCharSet = @ \cup UNION {IgnoreKindChars(k) : k \in rule.IgnoreKind}]

\* the nil interface value Close leaves in the masker map
NilWorker == MaskRule("", "nil", <<>>, 0, 0, 0, FALSE)

\* a registration that drops the caller's function for a fixed one
DIYWorkerFixedFunc(name, f) == [MaskRule(name, "DIY", <<>>, 0, 0, 0, FALSE) EXCEPT !.Func = "stars"]

DIYWorker(name, f) == [MaskRule(name, "DIY", <<>>, 0, 0, 0, FALSE) EXCEPT !.Func = f]

ReDigits == [kind |-> "plus", cls |-> Digits]
ReSpaceDigits == [kind |-> "plus", cls |-> {ChSpace} \cup Digits]
ReBol == [kind |-> "bol", cls |-> {}]
ReEol == [kind |-> "eol", cls |-> {}]

MCHAR == MaskRule("MCHAR", "CHAR", <<>>, 1, -1, 0, FALSE)
MREV == MaskRule("MREV", "CHAR", <<>>, -1, -1, 0, TRUE)
MREP == MaskRule("MREP", "REPLACE", <<ChHash, ChHash>>, -1, -1, 0, FALSE)
MTAG == MaskRule("MTAG", "TAG", <<>>, -1, -1, 0, FALSE)
MNUM == MaskRule("MNUM", "ALGO", AlgoNumber, -1, -1, 0, FALSE)

InfoN == <<78>>
InfoU == <<85>>

Configs ==
    << \* digits masked by a CHAR window, a key-only KV rule masked by REPLACE
       [Rules |-> <<Rule(1, InfoN, "MCHAR", {}, <<ReDigits>>, <<>>),
                    Rule(2, InfoU, "MREP", {<<ChLowerK>>}, <<>>, <<>>)>>,
        MaskRules |-> <<MCHAR, MREP, MTAG, MNUM>>,
        MaxRegexRuleID |-> 0, MaxLogInput |-> 0],
       \* regexes that match the empty string or preprocessed bytes; rule 2
       \* names a mask rule that is not loaded
       [Rules |-> <<Rule(1, InfoN, "MTAG", {}, <<ReBol>>, <<>>),
                    Rule(2, InfoU, "NONE", {}, <<ReEol>>, <<>>),
                    Rule(3, InfoN, "MTAG", {}, <<ReSpaceDigits>>, <<>>)>>,
        MaskRules |-> <<MTAG, MCHAR>>,
        MaxRegexRuleID |-> 1, MaxLogInput |-> 0],
       \* a reverse CHAR mask with the default offset, a KV rule with a value dict
       [Rules |-> <<Rule(1, InfoN, "MREV", {}, <<ReDigits>>, <<>>),
                    Rule(2, InfoU, "MCHAR", {<<ChLowerK>>}, <<>>, <<<<ChDigit1>>>>)>>,
        MaskRules |-> <<MREV, MCHAR>>,
        MaxRegexRuleID |-> 0, MaxLogInput |-> 0] >>

\* fillDetectorMap: the detectors of a configuration by rule id (the
\* configurations of the model enable every rule and disable none)
fillDetectorMap(old, rules) ==
    [id \in DOMAIN old \cup {rules[i].RuleID : i \in DOMAIN rules} |->
        IF \E i \in DOMAIN rules : rules[i].RuleID = id
        THEN rules[CHOOSE i \in DOMAIN rules :
                     /\ rules[i].RuleID = id
                     /\ \A j \in DOMAIN rules : rules[j].RuleID = id => j <= i]
        ELSE old[id]]

\* loadMaskWorker: a name already in the map keeps its worker; the log line
\* for the conflict calls GetRuleName on the worker held, a nil one after
\* Close, and the load stops in that panic
RECURSIVE loadMaskWorker(_, _, _)
loadMaskWorker(mm, maskRuleList, k) ==
    IF k > Len(maskRuleList) THEN [mm |-> mm, panic |-> FALSE]
    ELSE LET name == maskRuleList[k].RuleName
         IN IF name \in DOMAIN mm /\ mm[name] = NilWorker
            THEN [mm |-> mm, panic |-> TRUE]
            ELSE loadMaskWorker(IF name \in DOMAIN mm THEN mm
                                ELSE [n \in DOMAIN mm \cup {name} |->
                                         IF n = name THEN NewWorker(maskRuleList[k])
                                         ELSE mm[n]],
                                maskRuleList, k + 1)

(***************************************************************************)
(* Inputs of the public calls.                                             *)
(***************************************************************************)
\* the pieces texts are made of
Alphabet == {<<ChDigit1>>, <<ChLowerK>>, <<ChColon>>, <<ChBackslash>>, <<ChLF>>, WideColon}

\* "k:k1k": a digit inside the value of the inline pair with key k
NestedText == <<ChLowerK, ChColon, ChLowerK, ChDigit1, ChLowerK>>

Texts == {Flatten(ts) : ts \in SeqsUpTo(Alphabet, MaxTokens)} \cup {NestedText}

\* a text input: its bytes and its length; the bytes of an oversized text
\* are not read by any call and are not modelled
TextInputs ==
    {[text |-> t, size |-> Len(t)] : t \in Texts}
        \cup {[text |-> <<>>, size |-> DefMaxInput + 1]}

MapKeys == {<<ChLowerK>>, <<ChUpperK>>, <<>>, <<ChLowerX, ChSlash, ChLowerK>>}

MapValues == {<<ChDigit1>>, <<ChLowerK, ChDigit1, ChDigit1>>, <<>>}

EmptyMap == [k \in {} |-> <<>>]

ConcreteMaps ==
    UNION {[K -> MapValues] : K \in {S \in SUBSET MapKeys : Cardinality(S) <= MaxMapSize}}

\* a map input: its entries and their number; the entries of an oversized
\* map are not read by any call and are not modelled
MapInputs ==
    {[map |-> m, size |-> Cardinality(DOMAIN m)] : m \in ConcreteMaps}
        \cup {[map |-> EmptyMap, size |-> DefMaxItem + 1]}

MaskNames == {"MCHAR", "MREV", "MREP", "MTAG", "MNUM", "MDIY", "MISSING"}

DIYFuncs == {"stars", "fail", "nilfunc"}

MaxFields == 2

\* "UNKNOWN"
TypeUnknown == <<85, 78, 75, 78, 79, 87, 78>>

\* Worker.maskStrTagImpl: the parent's Detect on the text; a panic inside
\* that Detect is recovered there and leaves no results
maskStrTagImpl(dm, mm, forLog, maxId, in) ==
    LET tag(results) ==
            IF Len(results) > 0 THEN maskTagImpl(results[1].InfoType)
            ELSE maskTagImpl(TypeUnknown)
        detected(det) == tag(IF det.panic THEN <<>> ELSE det.results)
    IN detected(detectImpl(dm, mm, forLog, maxId, in))

\* API.Mask of the worker registered as name
maskWorkerMask(dm, mm, forLog, maxId, name, in) ==
    WorkerMask(mm[name], in, maskStrTagImpl(dm, mm, forLog, maxId, in))

(***************************************************************************)
(* Maps: DetectMap lower-cases the keys into a new map; keys that collide  *)
(* keep the value written last in the iteration of the Go map.             *)
(***************************************************************************)
LowerMaps(m) ==
    LET K == {ToLower(k) : k \in DOMAIN m}
    IN {lm \in [K -> {m[k] : k \in DOMAIN m}] :
            \A lk \in K : \E k \in DOMAIN m : ToLower(k) = lk /\ lm[lk] = m[k]}

\* the loop of deIdentifyMapImpl and of detectJSONImpl over results[k..]:
\* every result is applied alone to the current value of its key
RECURSIVE maskValues(_, _, _)
maskValues(outMap, results, k) ==
    IF k > Len(results) THEN [map |-> outMap, panic |-> FALSE]
    ELSE LET item == results[k]
         IN IF item.Key \notin DOMAIN outMap THEN maskValues(outMap, results, k + 1)
            ELSE LET put(r) ==
                        IF r.panic THEN [map |-> outMap, panic |-> TRUE]
                        ELSE maskValues([outMap EXCEPT ![item.Key] = r.out], results, k + 1)
                 IN put(deIdentifyByResult(outMap[item.Key], <<item>>))

deIdentifyMapImpl(dm, mm, inputMap, keys) ==
    LET mask(det, out) ==
            IF det.panic THEN [map |-> inputMap, results |-> <<>>, panic |-> TRUE]
            ELSE [map |-> out.map, results |-> det.results, panic |-> out.panic]
        byResult(det) == mask(det, maskValues(inputMap, det.results, 1))
    IN byResult(detectMapImpl(dm, mm, inputMap, keys))

(***************************************************************************)
(* JSON documents: a parsed document is the list of its string leaves,     *)
(* each with the object keys and array indices that lead to it.  A         *)
(* segment with idx = -1 is an object key.                                 *)
(***************************************************************************)
Key(name) == [name |-> name, idx |-> -1]
Idx(i) == [name |-> <<>>, idx |-> i]
Leaf(segs, val) == [segs |-> segs, leaf |-> val]

\* fmt.Sprintf("[%d]", i) for one decimal digit
IndexText(i) == <<ChLBracket, 48 + i, ChRBracket>>

\* the path dfsJSON has built when it reaches a leaf
RECURSIVE dfsPath(_, _, _)
dfsPath(segs, k, path) ==
    LET lo == ToLower(path)
    IN IF k > Len(segs) THEN lo
       ELSE IF segs[k].idx < 0
            THEN dfsPath(segs, k + 1, lo \o <<ChSlash>> \o segs[k].name)
            ELSE dfsPath(segs, k + 1,
                         IF Len(lo) = 0 THEN <<ChSlash>> \o IndexText(segs[k].idx)
                         ELSE lo \o IndexText(segs[k].idx))

maybeJSON(in) ==
    \/ (ChLBrace \in Range(in) /\ ChRBrace \in Range(in))
    \/ (ChLBracket \in Range(in) /\ ChRBracket \in Range(in))

\* the index of the first byte of in at or after i that is no space,
\* Len(in) + 1 when there is none
RECURSIVE SkipSpaces(_, _)
SkipSpaces(in, i) ==
    IF i > Len(in) \/ in[i] # ChSpace THEN i ELSE SkipSpaces(in, i + 1)

\* json.Unmarshal of the text of a string leaf.  The nested texts of the
\* model's documents are arrays of one string without escapes; the decoder
\* skips white space, reads one value and leaves what follows it unread.
\* Every other text of the model's documents does not parse.
UnmarshalNested(in) ==
    LET bad == [ok |-> FALSE, val |-> <<>>]
        close(q, e, c) ==
            IF in[e] = ChQuote /\ c <= Len(in) /\ in[c] = ChRBracket
            THEN [ok |-> TRUE, val |-> SubSeq(in, q + 1, e - 1)]
            ELSE bad
        string(q) ==
            IF q > Len(in) \/ in[q] # ChQuote THEN bad
            ELSE LET E == {e \in (q + 1)..Len(in) : in[e] \in {ChQuote, ChBackslash}}
                     first(e) == close(q, e, SkipSpaces(in, e + 1))
                 IN IF E = {} THEN bad
                    ELSE first(CHOOSE e \in E : \A f \in E : e <= f)
        array(a) ==
            IF a > Len(in) \/ in[a] # ChLBracket THEN bad
            ELSE string(SkipSpaces(in, a + 1))
    IN array(SkipSpaces(in, 1))

\* the bytes json.Marshal writes for one byte of a string: quote and
\* backslash escaped, < and > as < and >
EscapeJSON(b) ==
    CASE b = ChQuote -> <<ChBackslash, ChQuote>>
      [] b = ChBackslash -> <<ChBackslash, ChBackslash>>
      [] b = ChLt -> <<ChBackslash, 117, 48, 48, 51, 99>>
      [] b = ChGt -> <<ChBackslash, 117, 48, 48, 51, 101>>
      [] OTHER -> <<b>>

\* json.Marshal of an array of one string
MarshalNested(val) ==
    <<ChLBracket, ChQuote>> \o Flatten([i \in DOMAIN val |-> EscapeJSON(val[i])])
        \o <<ChQuote, ChRBracket>>

\* the leaves dfsJSON treats as plain text
PlainLeaves(members) == {i \in DOMAIN members : ~maybeJSON(members[i].leaf)}

\* the leaves dfsJSON unmarshals, walks and marshals again
NestedLeaves(members) ==
    {i \in DOMAIN members :
        maybeJSON(members[i].leaf) /\ UnmarshalNested(members[i].leaf).ok}

\* the path and the text of the string dfsJSON reaches at leaf m: the leaf
\* itself, or element 0 of the array its text holds
LeafPath(m) ==
    IF maybeJSON(m.leaf) THEN dfsPath(m.segs \o <<Idx(0)>>, 1, <<>>)
    ELSE dfsPath(m.segs, 1, <<>>)

LeafText(m) == IF maybeJSON(m.leaf) THEN UnmarshalNested(m.leaf).val ELSE m.leaf

\* dfsJSON with isDeIdentify = false: the maps path -> value it can leave
\* in kvMap (leaves with one path overwrite each other in iteration order)
dfsJSONDetect(members) ==
    LET maps(scanned) ==
            {kv \in [{LeafPath(members[i]) : i \in scanned}
                        -> {LeafText(members[i]) : i \in scanned}] :
                \A i \in scanned : \E j \in scanned :
                    /\ LeafPath(members[j]) = LeafPath(members[i])
                    /\ kv[LeafPath(members[i])] = LeafText(members[j])}
    IN maps(PlainLeaves(members) \cup NestedLeaves(members))

\* dfsJSON with isDeIdentify = true: plain leaves take the text kvMap has
\* for their path; a leaf that holds an array is marshalled again with its
\* element treated the same way; a leaf that does not parse is kept
dfsJSONDeIdentify(members, kvMap) ==
    LET text(m) == IF LeafPath(m) \in DOMAIN kvMap THEN kvMap[LeafPath(m)] ELSE LeafText(m)
        leaf(i) ==
            IF i \in PlainLeaves(members) THEN [members[i] EXCEPT !.leaf = text(members[i])]
            ELSE IF i \in NestedLeaves(members)
                 THEN [members[i] EXCEPT !.leaf = MarshalNested(text(members[i]))]
                 ELSE members[i]
    IN [i \in DOMAIN members |-> leaf(i)]

\* detectJSONImpl on a document that parsed into members, with kv the map
\* dfsJSON built and keys the order in which the detectors walk it
detectJSONImpl(dm, mm, kv, keys) ==
    LET mask(det, out) ==
            IF det.panic THEN [results |-> <<>>, kvMap |-> kv, panic |-> TRUE]
            ELSE [results |-> det.results, kvMap |-> out.map, panic |-> out.panic]
        byResult(det) == mask(det, maskValues(kv, det.results, 1))
    IN byResult(detectMapImpl(dm, mm, kv, keys))

\* resultsToMap: Key -> MaskText, a later result overwrites an earlier one
RECURSIVE resultsToMap(_, _, _)
resultsToMap(kvMap, results, k) ==
    IF k > Len(results) THEN kvMap
    ELSE resultsToMap([p \in DOMAIN kvMap \cup {results[k].Key} |->
                          IF p = results[k].Key THEN results[k].MaskText ELSE kvMap[p]],
                      results, k + 1)

JSONDocs ==
    { <<Leaf(<<>>, <<ChDigit1>>)>>,
      <<Leaf(<<Key(<<ChLowerK>>)>>, <<ChDigit1>>)>>,
      <<Leaf(<<Key(<<ChUpperK>>)>>, <<ChLowerK, ChDigit1, ChDigit1>>)>>,
      <<Leaf(<<Key(<<ChLowerK>>)>>, <<ChDigit1>>),
        Leaf(<<Key(<<ChUpperK>>)>>, <<ChLowerK, ChDigit1, ChDigit1>>)>>,
      <<Leaf(<<Idx(0)>>, <<ChDigit1>>)>>,
      <<Leaf(<<Key(<<ChLowerK>>)>>, <<ChDigit1, ChLowerK, ChDigit1>>)>>,
      <<Leaf(<<Key(<<ChLowerK>>), Idx(0)>>, <<ChDigit1>>),
        Leaf(<<Key(<<ChLowerK>>), Idx(1)>>, <<>>)>>,
      <<Leaf(<<Key(<<ChLowerX>>), Key(<<ChLowerK>>)>>, <<ChDigit1, ChDigit1>>)>>,
      \* string leaves that hold an array: ["1"], [ "1"] and the text ]1[
      <<Leaf(<<Key(<<ChLowerK>>)>>, <<ChLBracket, ChQuote, ChDigit1, ChQuote, ChRBracket>>)>>,
      <<Leaf(<<Key(<<ChLowerK>>)>>,
             <<ChLBracket, ChSpace, ChQuote, ChDigit1, ChQuote, ChRBracket>>)>>,
      <<Leaf(<<Key(<<ChLowerK>>)>>, <<ChRBracket, ChDigit1, ChLBracket>>)>> }

\* a JSON input: whether the text parses, the leaves it parses into, and
\* its length in bytes (white space around a document adds to the length
\* and to nothing else)
JSONInputs ==
    {[valid |-> TRUE, members |-> d, size |-> n] :
        d \in JSONDocs, n \in {DefMaxInput, DefMaxInput + 1}}
      \cup {[valid |-> FALSE, members |-> <<>>, size |-> DefMaxInput]}

(***************************************************************************)
(* MaskStruct on a pointer to a struct of string fields, each with the     *)
(* value of its mask tag ("" when the tag is absent or empty).             *)
(***************************************************************************)
\* the loop of maskStructImpl over fields[k..]: maskStructField and
\* maskTypeString
RECURSIVE maskStructImpl(_, _, _, _, _, _)
maskStructImpl(dm, mm, forLog, maxId, fields, k) ==
    IF k > Len(fields) THEN [fields |-> fields, panic |-> FALSE]
    ELSE IF fields[k].tag = "" \/ fields[k].tag \notin DOMAIN mm
         THEN maskStructImpl(dm, mm, forLog, maxId, fields, k + 1)
         ELSE LET set(m) ==
                     IF m.panic THEN [fields |-> fields, panic |-> TRUE]
                     ELSE maskStructImpl(dm, mm, forLog, maxId,
                                         IF m.err = "nil"
                                         THEN [fields EXCEPT ![k].val = m.out] ELSE fields,
                                         k + 1)
              IN set(maskWorkerMask(dm, mm, forLog, maxId, fields[k].tag, fields[k].val))

StructTags == {"", "MCHAR", "MREV", "MISSING"}

StructFields == [tag : StructTags, val : {<<ChDigit1>>, <<ChLowerK, ChDigit1, ChDigit1>>}]

StructInputs ==
    {[isNil |-> FALSE, fields |-> f] : f \in SeqsUpTo(StructFields, MaxFields)}
        \cup {[isNil |-> TRUE, fields |-> <<>>]}

(***************************************************************************)
(* The public calls.  A call is taken in one step that leaves its outcome  *)
(* in call; Return hands the outcome to the caller.                        *)
(***************************************************************************)
hasConfigured == isConfigured

\* a closed test that reads the wrong flag
hasClosedReadsForLog == isForLog

hasClosed == isClosed

isOnlyForLog == isForLog

\* a recovery that takes the wrong error for the critical one
isCriticalPanicWrongError(r) == r = "ErrProcessAfterClose"

isCriticalPanic(r) == r = "ErrHasNotConfigured"

NilObj == [isNil |-> TRUE, fields |-> <<>>]

NoDoc == [valid |-> FALSE, members |-> <<>>, size |-> 0]

\* a call before it runs: its arguments, the zero values of its results
NoCall ==
    [op |-> "none", text |-> <<>>, size |-> 0, name |-> "", func |-> "",
     inMap |-> EmptyMap, doc |-> NoDoc, rs |-> <<>>, obj |-> NilObj,
     pre |-> [configured |-> FALSE, closed |-> FALSE, forLog |-> FALSE],
     status |-> "return", pval |-> "nil", recovered |-> FALSE,
     err |-> "nil", results |-> <<>>, out |-> <<>>, outMap |-> EmptyMap,
     outDoc |-> <<>>, outObj |-> NilObj]

Begin(op) ==
    [NoCall EXCEPT !.op = op,
        !.pre = [configured |-> isConfigured, closed |-> isClosed, forLog |-> isForLog]]

Panic(c, r) == [c EXCEPT !.status = "panic", !.pval = r]

\* recoveryImpl: the deferred function of every public call.  c is the call
\* as its body left it, named the results the caller sees when a panic is
\* swallowed (the named results as they stood, zero values otherwise)
recoveryImpl(c, named) ==
    IF c.status # "panic" THEN c
    ELSE IF isCriticalPanic(c.pval) THEN c
    ELSE [named EXCEPT !.recovered = TRUE, !.pval = c.pval]

Finish(c, named) ==
    /\ call' = recoveryImpl(c, named)
    /\ pc' = "done"
    /\ UNCHANGED <<mIn, mOut>>

Detect(inp) ==
    /\ pc = "idle"
    /\ LET c0 == [Begin("Detect") EXCEPT !.text = inp.text, !.size = inp.size]
           body(det) ==
                IF ~hasConfigured THEN Panic(c0, "ErrHasNotConfigured")
                ELSE IF hasClosed THEN [c0 EXCEPT !.err = "ErrProcessAfterClose"]
                ELSE IF inp.size > DefMaxInput THEN [c0 EXCEPT !.err = "ErrMaxInputLimit"]
                ELSE IF det.panic THEN Panic(c0, "runtime error")
                ELSE [c0 EXCEPT !.results = det.results]
       IN Finish(body(detectImpl(detectorMap, maskerMap, isForLog,
                                 DefMaxRegexRuleID, inp.text)), c0)
    /\ UNCHANGED engineVars

DetectMap(inp, inMap, keys) ==
    /\ pc = "idle"
    /\ LET c0 == [Begin("DetectMap") EXCEPT !.inMap = inp.map, !.size = inp.size]
           body(det) ==
                IF ~hasConfigured THEN Panic(c0, "ErrHasNotConfigured")
                ELSE IF hasClosed THEN [c0 EXCEPT !.err = "ErrProcessAfterClose"]
                ELSE IF inp.size > DefMaxItem THEN [c0 EXCEPT !.err = "ErrMaxInputLimit"]
                ELSE IF det.panic THEN Panic(c0, "runtime error")
                ELSE [c0 EXCEPT !.results = det.results]
       IN Finish(body(detectMapImpl(detectorMap, maskerMap, inMap, keys)), c0)
    /\ UNCHANGED engineVars

DetectJSON(inp, kv, keys) ==
    /\ pc = "idle"
    /\ LET c0 == [Begin("DetectJSON") EXCEPT !.doc = inp, !.size = inp.size]
           body(det) ==
                IF ~hasConfigured THEN Panic(c0, "ErrHasNotConfigured")
                ELSE IF hasClosed THEN [c0 EXCEPT !.err = "ErrProcessAfterClose"]
                ELSE IF ~inp.valid THEN [c0 EXCEPT !.err = "SyntaxError"]
                ELSE IF det.panic THEN Panic(c0, "runtime error")
                ELSE [c0 EXCEPT !.results = det.results]
       IN Finish(body(detectJSONImpl(detectorMap, maskerMap, kv, keys)), c0)
    /\ UNCHANGED engineVars

DeIdentify(inp) ==
    /\ pc = "idle"
    /\ LET c0 == [Begin("DeIdentify") EXCEPT !.text = inp.text, !.size = inp.size]
           body(r) ==
                IF ~hasConfigured THEN Panic(c0, "ErrHasNotConfigured")
                ELSE IF hasClosed THEN [c0 EXCEPT !.err = "ErrProcessAfterClose"]
                ELSE IF isOnlyForLog
                     THEN [c0 EXCEPT !.out = inp.text, !.err = "ErrOnlyForLog"]
                ELSE IF inp.size > DefMaxInput
                     THEN [c0 EXCEPT !.out = inp.text, !.err = "ErrMaxInputLimit"]
                ELSE IF r.panic THEN Panic(c0, "runtime error")
                ELSE [c0 EXCEPT !.out = r.out, !.results = r.results]
       IN Finish(body(deIdentifyImpl(detectorMap, maskerMap, isForLog,
                                     DefMaxRegexRuleID, inp.text)), c0)
    /\ UNCHANGED engineVars

DeIdentifyMap(inp, keys) ==
    /\ pc = "idle"
    /\ LET c0 == [Begin("DeIdentifyMap") EXCEPT !.inMap = inp.map, !.size = inp.size]
           body(r) ==
                IF ~hasConfigured THEN Panic(c0, "ErrHasNotConfigured")
                ELSE IF hasClosed THEN [c0 EXCEPT !.err = "ErrProcessAfterClose"]
                ELSE IF inp.size > DefMaxItem
                     THEN [c0 EXCEPT !.outMap = inp.map, !.err = "ErrMaxInputLimit"]
                ELSE IF r.panic THEN Panic(c0, "runtime error")
                ELSE [c0 EXCEPT !.outMap = r.map, !.results = r.results]
       IN Finish(body(deIdentifyMapImpl(detectorMap, maskerMap, inp.map, keys)), c0)
    /\ UNCHANGED engineVars

DeIdentifyJSON(inp, kv, keys) ==
    /\ pc = "idle"
    /\ LET c0 == [Begin("DeIdentifyJSON") EXCEPT !.doc = inp, !.size = inp.size]
           body(det) ==
                IF ~hasConfigured THEN Panic(c0, "ErrHasNotConfigured")
                ELSE IF hasClosed
                     THEN [c0 EXCEPT !.outDoc = inp.members, !.err = "ErrProcessAfterClose"]
                ELSE IF ~inp.valid THEN [c0 EXCEPT !.err = "SyntaxError"]
                ELSE IF det.panic THEN Panic(c0, "runtime error")
                ELSE [c0 EXCEPT !.results = det.results,
                                !.outDoc = dfsJSONDeIdentify(inp.members, det.kvMap)]
       IN \* outStr already holds jsonText when detectJSONImpl runs
          Finish(body(detectJSONImpl(detectorMap, maskerMap,
                                     kv, keys)), [c0 EXCEPT !.outDoc = inp.members])
    /\ UNCHANGED engineVars

DetectResult(key, maskText) ==
    [RuleID |-> 2, InfoType |-> InfoU, Text |-> <<ChDigit1>>, MaskText |-> maskText,
     ResultType |-> "KV", Key |-> key, ByteStart |-> 0, ByteEnd |-> 1]

ResultInputs ==
    LET R == {DetectResult(k, <<ChStar>>) :
                k \in {<<ChSlash, ChLowerK>>, <<ChSlash, ChLowerX, ChSlash, ChLowerK>>}}
    IN SeqsUpTo(R, 2)

DeIdentifyJSONByResult(inp, detectResults) ==
    /\ pc = "idle"
    /\ LET c0 == [Begin("DeIdentifyJSONByResult") EXCEPT
                      !.doc = inp, !.size = inp.size, !.rs = detectResults]
           body(kvMap) ==
                IF ~hasConfigured THEN Panic(c0, "ErrHasNotConfigured")
                ELSE IF hasClosed
                     THEN [c0 EXCEPT !.outDoc = inp.members, !.err = "ErrProcessAfterClose"]
                ELSE IF ~inp.valid THEN [c0 EXCEPT !.err = "SyntaxError"]
                ELSE [c0 EXCEPT !.outDoc = dfsJSONDeIdentify(inp.members, kvMap)]
       IN Finish(body(resultsToMap(EmptyMap, detectResults, 1)), c0)
    /\ UNCHANGED engineVars

Mask(inp, methodName) ==
    /\ pc = "idle"
    /\ LET c0 == [Begin("Mask") EXCEPT !.text = inp.text, !.size = inp.size,
                                       !.name = methodName]
           body(m) ==
                IF ~hasConfigured THEN Panic(c0, "ErrHasNotConfigured")
                ELSE IF hasClosed THEN [c0 EXCEPT !.err = "ErrProcessAfterClose"]
                ELSE IF inp.size > DefMaxInput
                     THEN [c0 EXCEPT !.out = inp.text, !.err = "ErrMaxInputLimit"]
                ELSE IF methodName \notin DOMAIN maskerMap
                     THEN [c0 EXCEPT !.out = inp.text, !.err = "ErrMaskWorkerNotfound"]
                ELSE IF m.panic THEN Panic(c0, "runtime error")
                ELSE [c0 EXCEPT !.out = m.out, !.err = m.err]
       IN Finish(body(maskWorkerMask(detectorMap, maskerMap, isForLog,
                                     DefMaxRegexRuleID, methodName, inp.text)), c0)
    /\ UNCHANGED engineVars

MaskStruct(inPtr) ==
    /\ pc = "idle"
    /\ LET c0 == [Begin("MaskStruct") EXCEPT !.obj = inPtr]
           body(r) ==
                IF ~hasConfigured THEN Panic(c0, "ErrHasNotConfigured")
                ELSE IF hasClosed
                     THEN [c0 EXCEPT !.outObj = inPtr, !.err = "ErrProcessAfterClose"]
                ELSE IF inPtr.isNil THEN [c0 EXCEPT !.err = "ErrMaskStructInput"]
                ELSE IF r.panic THEN Panic(c0, "runtime error")
                ELSE [c0 EXCEPT !.outObj = [inPtr EXCEPT !.fields = r.fields]]
           \* outPtr and retErr are set before the checks; the struct behind
           \* the pointer keeps the fields masked before the panic
           run(r) ==
                Finish(body(r), [c0 EXCEPT !.outObj = [inPtr EXCEPT !.fields = r.fields],
                                           !.err = "ErrMaskStructOutput"])
       IN run(maskStructImpl(detectorMap, maskerMap, isForLog, DefMaxRegexRuleID,
                             inPtr.fields, 1))
    /\ UNCHANGED engineVars

RegisterMasker(maskName, maskFunc) ==
    /\ pc = "idle"
    /\ LET c0 == [Begin("RegisterMasker") EXCEPT !.name = maskName, !.func = maskFunc]
           c == IF ~hasConfigured THEN Panic(c0, "ErrHasNotConfigured")
                ELSE IF hasClosed THEN [c0 EXCEPT !.err = "ErrProcessAfterClose"]
                ELSE IF maskName \in DOMAIN maskerMap
                     THEN [c0 EXCEPT !.err = "ErrMaskNameConflict"]
                ELSE c0
       IN /\ Finish(c, c0)
          /\ maskerMap' =
                IF hasConfigured /\ ~hasClosed /\ maskName \notin DOMAIN maskerMap
                THEN [n \in DOMAIN maskerMap \cup {maskName} |->
                         IF n = maskName THEN DIYWorker(maskName, maskFunc)
                         ELSE maskerMap[n]]
                ELSE maskerMap
    /\ UNCHANGED <<isConfigured, isClosed, isForLog, confObj, detectorMap,
                   DefMaxRegexRuleID, DefMaxLogInput, other>>

\* the caller takes the outcome of the call
Return ==
    /\ pc = "done"
    /\ pc' = "idle"
    /\ call' = NoCall
    /\ mIn' = <<>>
    /\ mOut' = <<>>
    /\ UNCHANGED engineVars

(***************************************************************************)
(* Lifecycle.                                                              *)
(***************************************************************************)
\* ApplyConfig with configuration i: the configuration becomes confObj and
\* postLoadConfig loads it; isConfigured is set when the load came through
applyConfigImpl(c, i) ==
    /\ pc = "idle"
    /\ confObj' = i
    /\ DefMaxLogInput' = IF c.MaxLogInput > 0 THEN c.MaxLogInput ELSE DefMaxLogInput
    /\ DefMaxRegexRuleID' = IF c.MaxRegexRuleID > 0 THEN c.MaxRegexRuleID ELSE DefMaxRegexRuleID
    /\ detectorMap' = fillDetectorMap(detectorMap, c.Rules)
    /\ LET load(r) == /\ maskerMap' = r.mm
                      /\ isConfigured' = (isConfigured \/ ~r.panic)
       IN load(loadMaskWorker(maskerMap, c.MaskRules, 1))
    /\ UNCHANGED <<isClosed, isForLog, other, pc, call, mIn, mOut>>

ApplyConfig(i) == applyConfigImpl(Configs[i], i)

Close ==
    /\ pc = "idle"
    /\ maskerMap' = [n \in DOMAIN maskerMap |-> NilWorker]
    /\ detectorMap' = <<>>
    /\ confObj' = 0
    /\ isClosed' = TRUE
    /\ UNCHANGED <<isConfigured, isForLog, DefMaxRegexRuleID, DefMaxLogInput,
                   other, pc, call, mIn, mOut>>

NewLogProcessor ==
    /\ pc = "idle"
    /\ isForLog' = TRUE
    /\ UNCHANGED <<isConfigured, isClosed, confObj, detectorMap, maskerMap,
                   DefMaxRegexRuleID, DefMaxLogInput, other,
                   pc, call, mIn, mOut>>

NoMaskers == [n \in {} |-> NilWorker]

\* the fields of an Engine after NewEngine
NewEngine ==
    [isConfigured |-> FALSE, isForLog |-> FALSE, confObj |-> 0,
     detectorMap |-> <<>>, maskerMap |-> NoMaskers]

Init ==
    /\ isConfigured = FALSE
    /\ isClosed = FALSE
    /\ isForLog = FALSE
    /\ confObj = 0
    /\ detectorMap = <<>>
    /\ maskerMap = NoMaskers
    /\ DefMaxRegexRuleID = 0
    /\ DefMaxLogInput = DefaultMaxLogInput
    /\ other = NewEngine
    /\ pc = "idle"
    /\ call = NoCall
    /\ mIn = <<>>
    /\ mOut = <<>>

\* a call starts when the caller is idle
Next ==
    \/ \E i \in DOMAIN Configs : ApplyConfig(i)
    \/ Close
    \/ NewLogProcessor
    \/ /\ pc = "idle"
       /\ \E inp \in TextInputs : Detect(inp)
    \/ /\ pc = "idle"
       /\ \E inp \in MapInputs : \E inMap \in LowerMaps(inp.map) :
             \E keys \in PermsOf(DOMAIN inMap) : DetectMap(inp, inMap, keys)
    \/ /\ pc = "idle"
       /\ \E inp \in JSONInputs : \E kv \in dfsJSONDetect(inp.members) :
             \E keys \in PermsOf(DOMAIN kv) : DetectJSON(inp, kv, keys)
    \/ /\ pc = "idle"
       /\ \E inp \in TextInputs : DeIdentify(inp)
    \/ /\ pc = "idle"
       /\ \E inp \in MapInputs : \E keys \in PermsOf(DOMAIN inp.map) :
             DeIdentifyMap(inp, keys)
    \/ /\ pc = "idle"
       /\ \E inp \in JSONInputs : \E kv \in dfsJSONDetect(inp.members) :
             \E keys \in PermsOf(DOMAIN kv) : DeIdentifyJSON(inp, kv, keys)
    \/ /\ pc = "idle"
       /\ \E inp \in JSONInputs : \E rs \in ResultInputs : DeIdentifyJSONByResult(inp, rs)
    \/ /\ pc = "idle"
       /\ \E inp \in TextInputs : \E name \in MaskNames : Mask(inp, name)
    \/ /\ pc = "idle"
       /\ \E inPtr \in StructInputs : MaskStruct(inPtr)
    \/ \E name \in {"MDIY", "MCHAR"} : \E f \in DIYFuncs : RegisterMasker(name, f)
    \/ Return

Spec == Init /\ [][Next]_vars

(***************************************************************************)
(* One merge pass on its own: mergeResults on any two lists of raw         *)
(* results.                                                                *)
(***************************************************************************)
RawSpans == {<<0, 1>>, <<0, 2>>, <<1, 2>>, <<1, 1>>}

RawResults ==
    {[RuleID |-> id, InfoType |-> InfoN, Text |-> <<>>, MaskText |-> <<>>,
      ResultType |-> "VALUE", Key |-> key, ByteStart |-> sp[1], ByteEnd |-> sp[2]] :
        id \in {1, 2}, key \in {<<>>, <<ChLowerK>>}, sp \in RawSpans}

MergeResults(a, b) ==
    /\ pc = "idle"
    /\ mIn' = <<a, b>>
    /\ mOut' = mergeResults(a, b)
    /\ call' = [NoCall EXCEPT !.op = "mergeResults"]
    /\ pc' = "done"
    /\ UNCHANGED engineVars

NextMerge ==
    \/ /\ pc = "idle"
       /\ \E total \in SeqsUpTo(RawResults, MaxRaw) : \E n \in 0..Len(total) :
             MergeResults(SubSeq(total, 1, n), SubSeq(total, n + 1, Len(total)))
    \/ Return

SpecMerge == Init /\ [][NextMerge]_vars

(***************************************************************************)
(* Preprocessing on its own: detectPre on any line over a few bytes that   *)
(* spell escapes and the full-width colon.                                 *)
(***************************************************************************)
MaxPreLen == 5

\* backslash, n, 1, and the three bytes of U+FF1A
PreAlphabet == {ChBackslash, 110, ChDigit1, 239, 188, 154}

DetectPre(line) ==
    /\ pc = "idle"
    /\ mIn' = line
    /\ mOut' = detectPre(line)
    /\ call' = [NoCall EXCEPT !.op = "detectPre"]
    /\ pc' = "done"
    /\ UNCHANGED engineVars

NextPre ==
    \/ /\ pc = "idle"
       /\ \E line \in SeqsUpTo(PreAlphabet, MaxPreLen) : DetectPre(line)
    \/ Return

SpecPre == Init /\ [][NextPre]_vars

(***************************************************************************)
(* CHAR masking on its own: a worker built from any CHAR rule of the       *)
(* model, applied to any short text and to the text of the documented      *)
(* example.                                                                *)
(***************************************************************************)
MaxCharLen == 3
MaxWindow == 3

CharAlphabet == {ChDigit1, ChLowerK, ChSpace}

\* "18612341234"
ExampleText == <<49, 56, 54, 49, 50, 51, 52, 49, 50, 51, 52>>

CharTexts == SeqsUpTo(CharAlphabet, MaxCharLen) \cup {ExampleText}

CharRules ==
    {[MaskRule("C", "CHAR", v, o, p, l, rev) EXCEPT !.IgnoreCharSet = ics, !.IgnoreKind = ik] :
        v \in {<<>>, <<ChHash, ChLowerX>>}, o \in -1..MaxWindow, p \in -1..MaxWindow,
        l \in 0..MaxWindow, rev \in BOOLEAN, ics \in {{}, {ChLowerK}},
        ik \in {{}, {"NUMERIC"}, {"WHITESPACE", "PUNCTUATION"}}}

\* NewWorker on the rule, then the worker's Mask on the text
MaskChar(rule, text) ==
    /\ pc = "idle"
    /\ mIn' = <<rule>>
    /\ mOut' = <<WorkerMask(NewWorker(rule), text, Ret(<<>>, "nil"))>>
    /\ call' = [NoCall EXCEPT !.op = "maskCharImpl", !.text = text]
    /\ pc' = "done"
    /\ UNCHANGED engineVars

NextChar ==
    \/ /\ pc = "idle"
       /\ \E rule \in CharRules : \E text \in CharTexts : MaskChar(rule, text)
    \/ Return

SpecChar == Init /\ [][NextChar]_vars

(***************************************************************************)
(* The algorithm verifiers on their own (detector.go): each is applied to  *)
(* the Text of a result.                                                   *)
(***************************************************************************)
DefIDCardLength == 18
ChDash == 45
ChUpperX == 88
ChDigit0 == 48

\* int(byte(c) - '0'): the subtraction wraps in a byte
ByteMinusZero(c) == (c + 256 - ChDigit0) % 256

\* strings.Replace(text, "-", "", -1)
RemoveDashes(text) == SelectSeq(text, LAMBDA c : c # ChDash)

IDCardWeight == <<7, 9, 10, 5, 8, 4, 2, 1, 6, 3, 7, 9, 10, 5, 8, 4, 2>>
IDCardValidate == <<49, 48, 88, 57, 56, 55, 54, 53, 52, 51, 50>>

RECURSIVE WeightedSum(_, _, _)
WeightedSum(text, weight, i) ==
    IF i > Len(weight) THEN 0
    ELSE weight[i] * ByteMinusZero(text[i]) + WeightedSum(text, weight, i + 1)

verifyByIDCard(idCard) ==
    IF Len(idCard) # DefIDCardLength THEN FALSE
    ELSE IDCardValidate[(WeightedSum(idCard, IDCardWeight, 1) % 11) + 1] = idCard[Len(idCard)]

\* the loop of verifyByCreditCard from index i (1-based) down to the first byte
RECURSIVE creditCardSum(_, _, _)
creditCardSum(sanitizedValue, i, alternate) ==
    IF i < 1 THEN 0
    ELSE LET mod == ByteMinusZero(sanitizedValue[i])
             dbl == IF mod * 2 > 9 THEN ((mod * 2) % 10) + 1 ELSE mod * 2
         IN (IF alternate THEN dbl ELSE mod)
              + creditCardSum(sanitizedValue, i - 1, ~alternate)

verifyByCreditCard(patternText) ==
    LET luhn(sanitizedValue) ==
            IF Len(sanitizedValue) < 13 \/ Len(sanitizedValue) > 19 THEN FALSE
            ELSE creditCardSum(sanitizedValue, Len(sanitizedValue), FALSE) % 10 = 0
    IN luhn(RemoveDashes(patternText))

ABAWeight == <<3, 7, 1, 3, 7, 1, 3, 7, 1>>

verifyByABARouting(patternText) ==
    LET check(sanitizedValue) ==
            IF Len(sanitizedValue) # 9 THEN FALSE
            ELSE WeightedSum(sanitizedValue, ABAWeight, 1) % 10 = 0
    IN check(RemoveDashes(patternText))

\* texts for the verifiers: a run of one digit followed by MaxTail bytes
\* over the digits, '-' and 'X', in the lengths around each length test
MaxTail == 2

VerifyAlphabet == Digits \cup {ChDash, ChUpperX}

VerifyLengths == {8, 9, 10, 12, 13, 14, 17, 18, 19, 20}

VerifyTexts ==
    {[i \in 1..n |-> IF i <= n - MaxTail THEN f ELSE tail[i - (n - MaxTail)]] :
        n \in VerifyLengths, f \in {ChDigit0, ChDigit1}, tail \in [1..MaxTail -> VerifyAlphabet]}

VerifyByIDCard(text) ==
    /\ pc = "idle"
    /\ mIn' = text
    /\ mOut' = <<verifyByIDCard(text)>>
    /\ call' = [NoCall EXCEPT !.op = "verifyByIDCard"]
    /\ pc' = "done"
    /\ UNCHANGED engineVars

VerifyByCreditCard(text) ==
    /\ pc = "idle"
    /\ mIn' = text
    /\ mOut' = <<verifyByCreditCard(text)>>
    /\ call' = [NoCall EXCEPT !.op = "verifyByCreditCard"]
    /\ pc' = "done"
    /\ UNCHANGED engineVars

VerifyByABARouting(text) ==
    /\ pc = "idle"
    /\ mIn' = text
    /\ mOut' = <<verifyByABARouting(text)>>
    /\ call' = [NoCall EXCEPT !.op = "verifyByABARouting"]
    /\ pc' = "done"
    /\ UNCHANGED engineVars

NextVerify ==
    \/ /\ pc = "idle"
       /\ \E text \in VerifyTexts : VerifyByIDCard(text)
    \/ /\ pc = "idle"
       /\ \E text \in VerifyTexts : VerifyByCreditCard(text)
    \/ /\ pc = "idle"
       /\ \E text \in VerifyTexts : VerifyByABARouting(text)
    \/ Return

SpecVerify == Init /\ [][NextVerify]_vars

(***************************************************************************)
(* The log processor (sdk.go): NewLogProcessor hands out a function that   *)
(* de-identifies a log text and a list k1, v1, k2, v2, ... of keys and     *)
(* values.  The configurations of this specification set small text        *)
(* limits.                                                                 *)
(***************************************************************************)
MaxLogLen == 4
MaxLogKvs == 18

LogConfigs ==
    << [Rules |-> <<Rule(1, InfoN, "MCHAR", {}, <<ReDigits>>, <<>>),
                    Rule(2, InfoU, "MREP", {<<ChLowerK>>}, <<>>, <<>>)>>,
        MaskRules |-> <<MCHAR, MREP>>,
        MaxRegexRuleID |-> 1, MaxLogInput |-> 2],
       [Rules |-> <<Rule(1, InfoN, "MREV", {}, <<ReDigits>>, <<>>)>>,
        MaskRules |-> <<MREV>>,
        MaxRegexRuleID |-> 1, MaxLogInput |-> 3],
       \* a regex rule above every cutoff of these configurations, itself
       \* setting neither limit
       [Rules |-> <<Rule(3, InfoN, "MREP", {}, <<ReDigits>>, <<>>)>>,
        MaskRules |-> <<MREP>>,
        MaxRegexRuleID |-> 0, MaxLogInput |-> 0] >>

ApplyLogConfig(i) == applyConfigImpl(LogConfigs[i], Len(Configs) + i)

LogTexts == SeqsUpTo({ChDigit1, ChLowerK}, MaxLogLen)

\* lists of n elements: pairs x, "k", but for pair number hot, which is k, "11"
LogKvs ==
    {[i \in 1..n |->
        IF i % 2 = 1 THEN (IF (i + 1) \div 2 = hot THEN <<ChLowerK>> ELSE <<ChLowerX>>)
        ELSE (IF i \div 2 = hot THEN <<ChDigit1, ChDigit1>> ELSE <<ChLowerK>>)] :
        n \in 0..MaxLogKvs, hot \in 0..((MaxLogKvs + 1) \div 2)}

\* the number of elements the processor reads: an odd last element is
\* dropped, and no more than DefaultMaxLogItem are read
LogItems(kvs) ==
    LET sz == Len(kvs) - (Len(kvs) % 2)
    IN IF sz >= DefaultMaxLogItem THEN DefaultMaxLogItem ELSE sz

\* inMap: the keys of the first sz elements, each with its last value
LogMap(kvs, sz) ==
    LET K == {kvs[i] : i \in {j \in 1..sz : j % 2 = 1}}
        last(key) == CHOOSE i \in 1..sz :
                        /\ i % 2 = 1 /\ kvs[i] = key
                        /\ \A j \in 1..sz : (j % 2 = 1 /\ kvs[j] = key) => j <= i
    IN [key \in K |-> kvs[last(key) + 1]]

\* the loop over outMap in the order the map is ranged over: every value is
\* de-identified as a text and appended after its key
RECURSIVE logValues(_, _, _, _)
logValues(outMap, order, k, retKvs) ==
    IF k > Len(order) THEN [kvs |-> retKvs, panic |-> FALSE]
    ELSE LET put(r) ==
                IF r.panic THEN [kvs |-> retKvs, panic |-> TRUE]
                ELSE logValues(outMap, order, k + 1, retKvs \o <<order[k], r.out>>)
         IN put(deIdentifyImpl(detectorMap, maskerMap, isForLog, DefMaxRegexRuleID,
                               outMap[order[k]]))

\* one call of the function NewLogProcessor returned; keys is the order in
\* which the detectors walk inMap, order the order in which outMap is ranged
\* over.  A recovered panic returns the zero values "", nil, false.
LogProcessor(rawLog, kvs, keys, order) ==
    /\ pc = "idle"
    /\ isForLog
    /\ LET logCut == Len(rawLog) >= DefMaxLogInput
           sz == LogItems(kvs)
           kvCutted == Len(kvs) - (Len(kvs) % 2) >= DefaultMaxLogItem
           c0 == [Begin("LogProcessor") EXCEPT !.text = rawLog, !.size = Len(rawLog)]
           zero == [c0 EXCEPT !.recovered = TRUE, !.pval = "runtime error"]
           body(log, m) ==
                IF log.panic \/ m.panic THEN [call |-> zero, kvs |-> <<>>]
                ELSE LET vals == logValues(m.map, order, 1, <<>>)
                     IN IF vals.panic THEN [call |-> zero, kvs |-> <<>>]
                        ELSE [call |-> [c0 EXCEPT !.out =
                                           log.out \o (IF logCut THEN DefaultLimitError ELSE <<>>)],
                              kvs |-> vals.kvs \o (IF kvCutted
                                                   THEN <<LimitErrorKey, DefaultLimitError>>
                                                   ELSE <<>>)]
           done(r) == /\ call' = r.call
                      /\ mOut' = r.kvs
       IN done(body(deIdentifyImpl(detectorMap, maskerMap, isForLog, DefMaxRegexRuleID,
                                   IF logCut THEN SubSeq(rawLog, 1, DefMaxLogInput)
                                   ELSE rawLog),
                    IF sz > 0
                    THEN deIdentifyMapImpl(detectorMap, maskerMap, LogMap(kvs, sz), keys)
                    ELSE [map |-> EmptyMap, results |-> <<>>, panic |-> FALSE]))
    /\ mIn' = kvs
    /\ pc' = "done"
    /\ UNCHANGED engineVars

NextLog ==
    \/ \E i \in DOMAIN LogConfigs : ApplyLogConfig(i)
    \/ NewLogProcessor
    \/ /\ pc = "idle"
       /\ \E rawLog \in LogTexts : \E kvs \in LogKvs :
             \E keys \in PermsOf(DOMAIN LogMap(kvs, LogItems(kvs))) :
                \E order \in PermsOf(DOMAIN LogMap(kvs, LogItems(kvs))) :
                   LogProcessor(rawLog, kvs, keys, order)
    \/ Return

SpecLog == Init /\ [][NextLog]_vars

(***************************************************************************)
(* Context verification: Detector.verifyByContext and isWholeWord.         *)
(***************************************************************************)
DefContextRange == 32

\* utf8.DecodeLastRune(s[:end])
DecodeLastRune(s, end) ==
    LET lim == Max(0, end - 4)
        starts == {k \in lim..(end - 2) : ~IsCont(s[k + 1])}
        stop == IF starts = {} THEN lim - 1
                ELSE CHOOSE k \in starts : \A o \in starts : o <= k
        start == Max(0, stop)
        dec == DecodeRune(SubSeq(s, 1, end), start)
    IN IF end = 0 THEN [r |-> 65533, width |-> 0]
       ELSE IF s[end] < 128 THEN [r |-> s[end], width |-> 1]
       ELSE IF start + dec.width # end THEN [r |-> 65533, width |-> 1]
       ELSE dec

isLetter(r) == r \in LowerLetters \/ r \in UpperLetters

\* the neighbours of the occurrence at pos are looked up inside in
isWholeWord(in, word, pos) ==
    LET leftPos == pos
        rightPos == Min(pos + Len(word), Len(in))
        left == DecodeLastRune(in, leftPos)
        right == DecodeRune(in, rightPos)
    IN IF pos = -1 THEN FALSE
       ELSE IF right.width > 1 \/ left.width > 1 THEN TRUE
       ELSE IF left.width = 0
            THEN IF right.width = 0 THEN TRUE ELSE ~isLetter(right.r)
       ELSE IF right.width = 0 THEN ~isLetter(left.r)
       ELSE ~isLetter(left.r) /\ ~isLetter(right.r)

\* the loop over the occurrences of one word: every round searches and
\* judges the occurrence in subInput[start:]
RECURSIVE wordLoop(_, _, _)
wordLoop(subInput, wordBytes, start) ==
    LET rest == Slice(subInput, start, Len(subInput))
        pos == IndexFrom(rest, wordBytes, 0)
    IN IF pos = -1 THEN FALSE
       ELSE IF isWholeWord(rest, wordBytes, pos) THEN TRUE
       ELSE wordLoop(subInput, wordBytes, start + pos + Len(wordBytes))

\* the window [st, ed) of the context bytes around a result
contextWindow(inputBytes, res) ==
    [st |-> Max(0, res.ByteStart - DefContextRange),
     ed |-> Min(res.ByteEnd + DefContextRange, Len(inputBytes))]

\* d carries the rule's CDict and CReg; the slice expression panics on st > ed
verifyByContext(d, inputBytes, res) ==
    LET w == contextWindow(inputBytes, res)
        subInput == ToLower(Slice(inputBytes, w.st, w.ed))
    IN IF w.st > w.ed THEN [ok |-> FALSE, panic |-> TRUE]
       ELSE [ok |-> \/ \E i \in DOMAIN d.CDict :
                          /\ Len(d.CDict[i]) # 0
                          /\ wordLoop(subInput, ToLower(d.CDict[i]), 0)
                    \/ \E i \in DOMAIN d.CReg : Match(d.CReg[i], subInput),
             panic |-> FALSE]

\* contexts: up to MaxCtxTokens pieces around the word "kx", next to the
\* match "1" or DefContextRange - 1 blanks away from it on either side
MaxCtxTokens == 4

CtxWord == <<ChLowerK, ChLowerX>>

CtxTokens == {CtxWord, <<ChUpperK>>, <<ChSpace>>, WideColon, <<ChDigit1>>}

CtxTexts == {Flatten(ts) : ts \in SeqsUpTo(CtxTokens, MaxCtxTokens)}

CtxBlanks == [i \in 1..(DefContextRange - 1) |-> ChSpace]

CtxDicts == {<<CtxWord>>, <<<<>>, <<ChUpperK, ChLowerX>>>>, <<<<>>>>}

CtxPlaces == {"near", "before", "after"}

CtxInput(text, place) ==
    CASE place = "near" -> text \o <<ChDigit1>>
      [] place = "before" -> text \o CtxBlanks \o <<ChDigit1>>
      [] place = "after" -> <<ChDigit1>> \o CtxBlanks \o text

CtxResult(text, place) ==
    IF place = "after" THEN [ByteStart |-> 0, ByteEnd |-> 1]
    ELSE [ByteStart |-> Len(CtxInput(text, place)) - 1,
          ByteEnd |-> Len(CtxInput(text, place))]

VerifyByContext(cdict, text, place) ==
    /\ pc = "idle"
    /\ mIn' = <<cdict, CtxInput(text, place), CtxResult(text, place)>>
    /\ mOut' = <<verifyByContext([CDict |-> cdict, CReg |-> <<>>],
                                 CtxInput(text, place), CtxResult(text, place))>>
    /\ call' = [NoCall EXCEPT !.op = "verifyByContext"]
    /\ pc' = "done"
    /\ UNCHANGED engineVars

\* lines with one inline pair "k:value" after 0, DefContextRange - 1 or
\* DefContextRange + 1 blanks
CtxPads == {<<>>, CtxBlanks, CtxBlanks \o <<ChSpace, ChSpace>>}

CtxValues == {CtxWord, <<ChDigit1>>, <<ChDigit1, ChLowerK, ChLowerX>>}

CtxLine(pad, value) == pad \o <<ChLowerK, ChColon>> \o value

\* a KV rule with the key k, no value rule and a context dictionary
CtxKVRule(cdict) ==
    Rule(2, InfoU, "MREP", {<<ChLowerK>>}, <<>>, <<>>) @@ [CDict |-> cdict, CReg |-> <<>>]

\* doDetectKV on the first pair extractKVList finds in the line, for a rule
\* whose key is hit and that has no value rule: the result of the whole
\* value is moved by kvItem.Start and then verified against the value
DoDetectKVVerify(cdict, pad, value) ==
    /\ pc = "idle"
    /\ LET kvItem == extractKVList(CtxLine(pad, value))[1]
           d == CtxKVRule(cdict)
           res == shift(createKVResult(d, kvItem.Key, kvItem.Value), kvItem.Start)
       IN /\ keyHit(d, kvItem)
          /\ mIn' = <<cdict, kvItem.Value, res>>
          /\ mOut' = <<verifyByContext(d, kvItem.Value, res)>>
    /\ call' = [NoCall EXCEPT !.op = "doDetectKV"]
    /\ pc' = "done"
    /\ UNCHANGED engineVars

NextContext ==
    \/ /\ pc = "idle"
       /\ \E cdict \in CtxDicts, text \in CtxTexts, place \in CtxPlaces :
             VerifyByContext(cdict, text, place)
    \/ /\ pc = "idle"
       /\ \E cdict \in CtxDicts, pad \in CtxPads, value \in CtxValues :
             DoDetectKVVerify(cdict, pad, value)
    \/ Return

SpecContext == Init /\ [][NextContext]_vars

(***************************************************************************)
(* MaskStruct on nested values.  The objects a pointer can reach are a     *)
(* heap: object id |-> its fields; 0 is the nil pointer.  The recursion of *)
(* maskStructImpl is run one step at a time on a stack of calls, each with *)
(* its inPtr, its level, the field i it is at (0 before the depth check)   *)
(* and the item j of a slice field.                                        *)
(***************************************************************************)
StrField(tagged, method, str) ==
    [kind |-> "String", tagged |-> tagged, method |-> method, str |-> str,
     ref |-> 0, items |-> <<>>]

PtrField(tagged, ref) ==
    [kind |-> "Ptr", tagged |-> tagged, method |-> "", str |-> <<>>,
     ref |-> ref, items |-> <<>>]

StructField(ref) ==
    [kind |-> "Struct", tagged |-> TRUE, method |-> "", str |-> <<>>,
     ref |-> ref, items |-> <<>>]

SliceField(method, items) ==
    [kind |-> "Slice", tagged |-> TRUE, method |-> method, str |-> <<>>,
     ref |-> 0, items |-> items]

StrItem(str) == [kind |-> "String", str |-> str, ref |-> 0]

PtrItem(ref) == [kind |-> "Ptr", str |-> <<>>, ref |-> ref]

StructItem(ref) == [kind |-> "Struct", str |-> <<>>, ref |-> ref]

\* a depth check that lets level 0 through
callDeepCheckOffByOne(level) == level < 0

\* `if level <= 0` of maskStructImpl
callDeepCheck(level) == level <= 0

\* maskTypeString: the masked string, or the string itself without a method,
\* without a worker of that name or when the worker fails
maskTypeString(methodName, str) ==
    LET set(m) == IF m.panic THEN [str |-> str, panic |-> TRUE]
                  ELSE [str |-> IF m.err = "nil" THEN m.out ELSE str, panic |-> FALSE]
    IN IF Len(methodName) <= 0 \/ methodName \notin DOMAIN maskerMap
       THEN [str |-> str, panic |-> FALSE]
       ELSE set(maskWorkerMask(detectorMap, maskerMap, isForLog, DefMaxRegexRuleID,
                               methodName, str))

StructFrame(ptr, level) == [ptr |-> ptr, level |-> level, i |-> 0, j |-> 1]

\* one step of the call on top of the stack: the depth check and the input
\* check on entry, then one field (maskStructField) or one item of a slice
\* field (maskTypeList), then the return
structStep(w) ==
    LET n == Len(w.stack)
        top == w.stack[n]
        pop == SubSeq(w.stack, 1, n - 1)
        at(i, j) == [w.stack EXCEPT ![n].i = i, ![n].j = j]
        enter(ref, i, j) ==
            IF ref = 0 THEN at(i, j)
            ELSE Append(at(i, j), StructFrame(ref, top.level - 1))
        f == w.heap[top.ptr][top.i]
        item == f.items[top.j]
        str == maskTypeString(f.method, f.str)
        itemStr == maskTypeString(f.method, item.str)
    IN IF top.i = 0
       THEN IF callDeepCheck(top.level) THEN [w EXCEPT !.stack = pop]
            ELSE IF top.ptr = 0
                 THEN [w EXCEPT !.stack = pop, !.err = "ErrMaskStructInput"]
            ELSE [w EXCEPT !.stack = at(1, 1)]
       ELSE IF top.i > Len(w.heap[top.ptr]) THEN [w EXCEPT !.stack = pop]
       ELSE IF ~f.tagged THEN [w EXCEPT !.stack = at(top.i + 1, 1)]
       ELSE CASE f.kind = "String" ->
                    IF str.panic THEN [w EXCEPT !.stack = <<>>, !.err = "panic"]
                    ELSE [w EXCEPT !.heap[top.ptr][top.i].str = str.str,
                                   !.stack = at(top.i + 1, 1)]
              [] f.kind \in {"Struct", "Ptr"} ->
                    [w EXCEPT !.stack = enter(f.ref, top.i + 1, 1)]
              [] f.kind = "Slice" ->
                    IF top.j > Len(f.items) THEN [w EXCEPT !.stack = at(top.i + 1, 1)]
                    ELSE IF item.kind = "String"
                         THEN IF itemStr.panic
                              THEN [w EXCEPT !.stack = <<>>, !.err = "panic"]
                              ELSE [w EXCEPT !.heap[top.ptr][top.i].items[top.j].str =
                                                 itemStr.str,
                                             !.stack = at(top.i, top.j + 1)]
                         ELSE [w EXCEPT !.stack = enter(item.ref, top.i, top.j + 1)]

\* heaps: object 1 holds a tagged string and MaxFanout links of one shape,
\* to itself or to object 2, which links back to object 1
MaxFanout == 2

StructText == <<ChLowerK, ChDigit1, ChDigit1>>

StructShapes == {"self", "untagged", "nil", "ring", "struct", "slice", "items"}

StructHeap(shape, n) ==
    LET s == StrField(TRUE, "MCHAR", StructText)
        back == <<s, PtrField(TRUE, 1)>>
        links(fld) == <<s>> \o [k \in 1..n |-> fld]
    IN CASE shape = "self" -> <<links(PtrField(TRUE, 1)), <<>>>>
         [] shape = "untagged" -> <<links(PtrField(FALSE, 1)), <<>>>>
         [] shape = "nil" -> <<links(PtrField(TRUE, 0)), <<>>>>
         [] shape = "ring" -> <<links(PtrField(TRUE, 2)), back>>
         [] shape = "struct" -> <<links(StructField(2)), back>>
         [] shape = "slice" ->
               <<<<s, SliceField("MCHAR", <<StrItem(StructText)>>
                                            \o [k \in 1..n |-> PtrItem(1)])>>, <<>>>>
         [] shape = "items" ->
               <<<<SliceField("", <<StrItem(StructText)>>
                                      \o [k \in 1..n |-> StructItem(2)])>>, back>>

StructHeaps == {StructHeap(shape, n) : shape \in StructShapes, n \in 0..MaxFanout}

\* MaskStruct past its checks: maskStructImpl(inPtr, DefMaxCallDeep)
StructWalkBegin(heap, inPtr) ==
    /\ pc = "idle"
    /\ hasConfigured /\ ~hasClosed
    /\ mIn' = <<heap, inPtr>>
    /\ mOut' = [heap |-> heap, stack |-> <<StructFrame(inPtr, DefMaxCallDeep)>>,
                err |-> "nil"]
    /\ call' = [NoCall EXCEPT !.op = "maskStructImpl"]
    /\ pc' = "walk"
    /\ UNCHANGED engineVars

StructWalkStep ==
    /\ pc = "walk"
    /\ mOut' = structStep(mOut)
    /\ pc' = IF mOut'.stack = <<>> THEN "done" ELSE "walk"
    /\ UNCHANGED <<mIn, call>>
    /\ UNCHANGED engineVars

NextStruct ==
    \/ ApplyConfig(1)
    \/ /\ pc = "idle"
       /\ \E heap \in StructHeaps, inPtr \in 0..1 : StructWalkBegin(heap, inPtr)
    \/ StructWalkStep
    \/ Return

SpecStruct == Init /\ [][NextStruct]_vars

SpecStructLive == SpecStruct /\ WF_vars(StructWalkStep)

(***************************************************************************)
(* The loop of Detector.dictDetectBytes, one round at a time: currStart is *)
(* the offset at which current begins in inputBytes.                       *)
(***************************************************************************)
MaxDictLen == 3

DictAlphabet == {ChDigit1, ChLowerK}

\* v_dict words, the empty word among them
DictWords == SeqsUpTo(DictAlphabet, 2)

DictInputs == SeqsUpTo(DictAlphabet, MaxDictLen)

DictRule(word) == Rule(1, InfoN, "MCHAR", {}, <<>>, <<word>>)

DictDetectBegin(word, inputBytes) ==
    /\ pc = "idle"
    /\ mIn' = <<word, inputBytes>>
    /\ mOut' = [currStart |-> 0, results |-> <<>>]
    /\ call' = [NoCall EXCEPT !.op = "dictDetectBytes"]
    /\ pc' = "scan"
    /\ UNCHANGED engineVars

\* one round of `for len(current) > 0`; no input of at most MaxDictLen
\* bytes holds more than MaxDictLen + 1 occurrences of a word, and a scan
\* that has found more is not followed further
DictDetectRound ==
    /\ pc = "scan"
    /\ Len(mOut.results) <= MaxDictLen + 1
    /\ LET word == mIn[1]
           inputBytes == mIn[2]
           current == Slice(inputBytes, mOut.currStart, Len(inputBytes))
           start == IndexFrom(current, word, 0)
           end == mOut.currStart + start + Len(word)
       IN IF Len(current) > 0 /\ start # -1
          THEN /\ mOut' = [currStart |-> end,
                           results |-> Append(mOut.results,
                                          createValueResult(DictRule(word), inputBytes,
                                                            <<mOut.currStart + start, end>>))]
               /\ pc' = "scan"
          ELSE /\ mOut' = mOut
               /\ pc' = "done"
    /\ UNCHANGED <<mIn, call>>
    /\ UNCHANGED engineVars

NextDict ==
    \/ /\ pc = "idle"
       /\ \E word \in DictWords, inputBytes \in DictInputs : DictDetectBegin(word, inputBytes)
    \/ DictDetectRound
    \/ Return

SpecDict == Init /\ [][NextDict]_vars

SpecDictLive == SpecDict /\ WF_vars(DictDetectRound)

(***************************************************************************)
(* Two engines of one process.  The engine of the variables isConfigured   *)
(* ... maskerMap and the engine held in other each load configurations,    *)
(* make a log processor and call it; DefMaxLogInput and DefMaxRegexRuleID  *)
(* are variables of the package.                                           *)
(***************************************************************************)
PairConfigs ==
    << [Rules |-> <<Rule(1, InfoN, "MCHAR", {}, <<ReDigits>>, <<>>)>>,
        MaskRules |-> <<MCHAR>>,
        MaxRegexRuleID |-> 1, MaxLogInput |-> 2],
       [Rules |-> <<Rule(2, InfoN, "MREP", {}, <<ReDigits>>, <<>>)>>,
        MaskRules |-> <<MREP>>,
        MaxRegexRuleID |-> 2, MaxLogInput |-> 3],
       \* max_log_input and max_regex_rule_id not set
       [Rules |-> <<Rule(1, InfoN, "MREP", {}, <<ReDigits>>, <<>>)>>,
        MaskRules |-> <<MREP>>,
        MaxRegexRuleID |-> 0, MaxLogInput |-> 0],
       \* max_log_input not set
       [Rules |-> <<Rule(2, InfoN, "MREP", {}, <<ReDigits>>, <<>>)>>,
        MaskRules |-> <<MREP>>,
        MaxRegexRuleID |-> 2, MaxLogInput |-> 0] >>

\* the configurations that set both limits
PairOwnConfigs == {i \in DOMAIN PairConfigs :
                      PairConfigs[i].MaxRegexRuleID > 0 /\ PairConfigs[i].MaxLogInput > 0}

PairConfObj(i) == Len(Configs) + Len(LogConfigs) + i

ApplyPairConfig(i) == applyConfigImpl(PairConfigs[i], PairConfObj(i))

\* ApplyConfig on the second engine
OtherApplyConfig(i) ==
    /\ pc = "idle"
    /\ LET c == PairConfigs[i]
           load(r) ==
               other' = [other EXCEPT
                           !.confObj = PairConfObj(i),
                           !.detectorMap = fillDetectorMap(other.detectorMap, c.Rules),
                           !.maskerMap = r.mm,
                           !.isConfigured = (other.isConfigured \/ ~r.panic)]
       IN /\ DefMaxLogInput' = IF c.MaxLogInput > 0 THEN c.MaxLogInput ELSE DefMaxLogInput
          /\ DefMaxRegexRuleID' = IF c.MaxRegexRuleID > 0 THEN c.MaxRegexRuleID
                                  ELSE DefMaxRegexRuleID
          /\ load(loadMaskWorker(other.maskerMap, c.MaskRules, 1))
    /\ UNCHANGED <<isConfigured, isClosed, isForLog, confObj, detectorMap, maskerMap,
                   pc, call, mIn, mOut>>

\* NewLogProcessor on the second engine
OtherNewLogProcessor ==
    /\ pc = "idle"
    /\ other' = [other EXCEPT !.isForLog = TRUE]
    /\ UNCHANGED <<isConfigured, isClosed, isForLog, confObj, detectorMap, maskerMap,
                   DefMaxRegexRuleID, DefMaxLogInput, pc, call, mIn, mOut>>

\* the log processor of the second engine, called with a text and no kvs
OtherLogProcessor(rawLog) ==
    /\ pc = "idle"
    /\ other.isForLog
    /\ LET logCut == Len(rawLog) >= DefMaxLogInput
           c0 == [Begin("OtherLogProcessor") EXCEPT !.text = rawLog, !.size = Len(rawLog)]
           body(log) ==
               IF log.panic THEN [c0 EXCEPT !.recovered = TRUE, !.pval = "runtime error"]
               ELSE [c0 EXCEPT !.out = log.out \o (IF logCut THEN DefaultLimitError
                                                   ELSE <<>>)]
       IN call' = body(deIdentifyImpl(other.detectorMap, other.maskerMap, other.isForLog,
                                      DefMaxRegexRuleID,
                                      IF logCut THEN SubSeq(rawLog, 1, DefMaxLogInput)
                                      ELSE rawLog))
    /\ mIn' = <<>>
    /\ mOut' = <<>>
    /\ pc' = "done"
    /\ UNCHANGED engineVars

PairKvs == {<<>>, <<<<ChLowerX>>, <<ChDigit1, ChDigit1>>>>}

NextPair ==
    \/ \E i \in PairOwnConfigs : ApplyPairConfig(i)
    \/ NewLogProcessor
    \/ /\ pc = "idle"
       /\ \E rawLog \in LogTexts : \E kvs \in PairKvs :
             \E keys \in PermsOf(DOMAIN LogMap(kvs, LogItems(kvs))) :
                LogProcessor(rawLog, kvs, keys, keys)
    \/ \E i \in DOMAIN PairConfigs : OtherApplyConfig(i)
    \/ OtherNewLogProcessor
    \/ /\ pc = "idle"
       /\ \E rawLog \in LogTexts : OtherLogProcessor(rawLog)
    \/ Return

SpecPair == Init /\ [][NextPair]_vars

(***************************************************************************)
(* Properties.                                                             *)
(***************************************************************************)

\* C1: every result r that Detect returns carries the bytes of the caller's
\* text at its offsets: r.Text = text[r.ByteStart:r.ByteEnd], with the
\* offsets inside the text.
DetectTextIsInputSlice ==
    (pc = "done" /\ call.op = "Detect" /\ call.status = "return")
        => \A i \in DOMAIN call.results :
              LET r == call.results[i]
              IN /\ 0 <= r.ByteStart /\ r.ByteStart <= r.ByteEnd
                 /\ r.ByteEnd <= Len(call.text)
                 /\ r.Text = SubSeq(call.text, r.ByteStart + 1, r.ByteEnd)

\* C2: in the list one merge pass leaves, no two results at different
\* positions agree in (ByteStart, ByteEnd, Key), and of two results with
\* one Key neither span lies inside the other.
MergeLeavesNoDuplicateNoContained ==
    (pc = "done" /\ call.op = "mergeResults")
        => \A i, j \in DOMAIN mOut :
              i # j =>
                 /\ ~(/\ mOut[i].ByteStart = mOut[j].ByteStart
                      /\ mOut[i].ByteEnd = mOut[j].ByteEnd
                      /\ mOut[i].Key = mOut[j].Key)
                 /\ mOut[i].Key = mOut[j].Key
                       => ~(/\ mOut[i].ByteStart <= mOut[j].ByteStart
                            /\ mOut[j].ByteEnd <= mOut[i].ByteEnd)

\* C2 witness: a merge of three raw results with one key, among them two
\* with the same span and one around them, that leaves one result.
MergeDropsDuplicateAndContained ==
    /\ pc = "done" /\ call.op = "mergeResults"
    /\ Len(mIn[1]) + Len(mIn[2]) = 3
    /\ Len(mIn[1]) = 1
    /\ mIn[1][1].Key = mIn[2][1].Key /\ mIn[2][1].Key = mIn[2][2].Key
    /\ mIn[1][1].ByteStart = 1 /\ mIn[1][1].ByteEnd = 2
    /\ mIn[2][1].ByteStart = 1 /\ mIn[2][1].ByteEnd = 2
    /\ mIn[2][2].ByteStart = 0 /\ mIn[2][2].ByteEnd = 2
    /\ Len(mOut) = 1
    /\ mOut[1].ByteStart = 0 /\ mOut[1].ByteEnd = 2

\* C3: the list Detect, DetectMap and DetectJSON return is ascending in
\* (ByteStart, ByteEnd, RuleID): no result is followed by a smaller one,
\* for Detect over the whole list across the line blocks.
ReturnedResultsAscending ==
    (pc = "done" /\ call.op \in {"Detect", "DetectMap", "DetectJSON"}
                 /\ call.status = "return")
        => \A i, j \in DOMAIN call.results :
              i < j =>
                 LET a == call.results[i]
                     b == call.results[j]
                 IN ~(\/ b.ByteStart < a.ByteStart
                      \/ /\ b.ByteStart = a.ByteStart
                         /\ \/ b.ByteEnd < a.ByteEnd
                            \/ (b.ByteEnd = a.ByteEnd /\ b.RuleID < a.RuleID))

\* C4: when the results DeIdentify returns do not overlap pairwise, the
\* returned text is the input with each [ByteStart, ByteEnd) replaced by the
\* result's MaskText and the other bytes copied in order, so its length is
\* the input's plus the sum of Len(MaskText) - (ByteEnd - ByteStart).
DeIdentifyReplacesRegions ==
    (/\ pc = "done" /\ call.op = "DeIdentify" /\ call.status = "return"
     /\ call.err = "nil"
     /\ \A i, j \in DOMAIN call.results :
           i # j => \/ call.results[i].ByteEnd <= call.results[j].ByteStart
                    \/ call.results[j].ByteEnd <= call.results[i].ByteStart)
        => LET rs == call.results
               \* the results in the order of their regions
               before(i, j) == \/ rs[i].ByteStart < rs[j].ByteStart
                               \/ rs[i].ByteStart = rs[j].ByteStart /\ i < j
               rank(i) == Cardinality({j \in DOMAIN rs : before(j, i)}) + 1
               at(k) == rs[CHOOSE i \in DOMAIN rs : rank(i) = k]
               RECURSIVE spliced(_, _), delta(_)
               spliced(k, pos) ==
                   IF k > Len(rs) THEN SubSeq(call.text, pos + 1, Len(call.text))
                   ELSE SubSeq(call.text, pos + 1, at(k).ByteStart)
                           \o at(k).MaskText \o spliced(k + 1, at(k).ByteEnd)
               delta(k) ==
                   IF k > Len(rs) THEN 0
                   ELSE Len(rs[k].MaskText) - (rs[k].ByteEnd - rs[k].ByteStart)
                           + delta(k + 1)
           IN /\ call.out = spliced(1, 0)
              /\ Len(call.out) = Len(call.text) + delta(1)

\* C5: on an engine no configuration was applied to, each of the ten calls
\* ends in the NotConfigured panic, which recoveryImpl lets through, with
\* no result, no output and no masker registered.
NotConfiguredPropagates ==
    /\ (pc = "done" /\ ~call.pre.configured
          /\ call.op \in {"Detect", "DetectMap", "DetectJSON", "DeIdentify",
                          "DeIdentifyMap", "DeIdentifyJSON", "DeIdentifyJSONByResult",
                          "Mask", "MaskStruct", "RegisterMasker"})
          => /\ call.status = "panic" /\ call.pval = "ErrHasNotConfigured"
             /\ ~call.recovered
             /\ call.results = <<>> /\ call.out = <<>> /\ call.outMap = EmptyMap
             /\ call.outDoc = <<>> /\ call.outObj = NilObj
    /\ ~isConfigured => DOMAIN maskerMap = {}

\* C5 witness: RegisterMasker on a new engine ended in the panic and
\* registered nothing.
RegisterMaskerOnNewEnginePanics ==
    /\ pc = "done" /\ call.op = "RegisterMasker" /\ ~call.pre.configured
    /\ ~call.pre.closed
    /\ call.status = "panic" /\ call.pval = "ErrHasNotConfigured"
    /\ DOMAIN maskerMap = {}

LogOnlyEngineRejectsDetectAndDeIdentify ==
    (pc = "done" /\ call.op \in {"Detect", "DeIdentify"}
       /\ call.pre.configured /\ call.pre.forLog /\ ~call.pre.closed)
       => /\ call.status = "return" /\ call.err = "ErrOnlyForLog"
          /\ call.results = <<>>
          /\ call.op = "DeIdentify" => call.out = call.text

\* C8: on a configured, open engine the calls that take a text return
\* ErrMaxInputLimit and no result for more than DefMaxInput bytes and do
\* not for exactly DefMaxInput bytes; DetectMap and DeIdentifyMap do the
\* same at DefMaxItem entries.
InputCapsEnforced ==
    (pc = "done" /\ call.pre.configured /\ ~call.pre.closed /\ ~call.pre.forLog)
       => /\ (call.op \in {"Detect", "DeIdentify", "Mask", "DetectJSON", "DeIdentifyJSON"}
                /\ call.size > DefMaxInput)
                => /\ call.status = "return" /\ call.err = "ErrMaxInputLimit"
                   /\ call.results = <<>>
          /\ (call.op \in {"Detect", "DeIdentify", "Mask", "DetectJSON", "DeIdentifyJSON"}
                /\ call.size <= DefMaxInput)
                => call.err # "ErrMaxInputLimit"
          /\ (call.op \in {"DetectMap", "DeIdentifyMap"} /\ call.size > DefMaxItem)
                => /\ call.status = "return" /\ call.err = "ErrMaxInputLimit"
                   /\ call.results = <<>>
          /\ (call.op \in {"DetectMap", "DeIdentifyMap"} /\ call.size <= DefMaxItem)
                => call.err # "ErrMaxInputLimit"

\* C9: a call on a configured engine in which a panic other than
\* NotConfigured was recovered returns a non-nil error.
RecoveredPanicReturnsError ==
    (pc = "done" /\ call.pre.configured /\ call.recovered)
       => call.status = "return" /\ call.err # "nil"

\* C10: on a configured, open engine Mask with a name no worker is held
\* under returns the text and ErrMaskWorkerNotfound; with a name a worker
\* is held under it returns what that worker's Mask gives for the text.
MaskDispatchesByName ==
    (pc = "done" /\ call.op = "Mask" /\ call.pre.configured /\ ~call.pre.closed
       /\ call.size <= DefMaxInput)
       => IF call.name \notin DOMAIN maskerMap
          THEN /\ call.status = "return" /\ call.out = call.text
               /\ call.err = "ErrMaskWorkerNotfound"
          ELSE LET m == maskWorkerMask(detectorMap, maskerMap, isForLog,
                                       DefMaxRegexRuleID, call.name, call.text)
               IN /\ ~m.panic
                  /\ call.status = "return"
                  /\ call.out = m.out /\ call.err = m.err

ByResultKeepsLeavesWithoutResult ==
    (/\ pc = "done" /\ call.op = "DeIdentifyJSONByResult"
     /\ call.pre.configured /\ ~call.pre.closed /\ call.doc.valid)
       => /\ call.status = "return" /\ call.err = "nil"
          /\ DOMAIN call.outDoc = DOMAIN call.doc.members
          /\ \A i \in DOMAIN call.doc.members :
                /\ call.outDoc[i].segs = call.doc.members[i].segs
                /\ (\A k \in DOMAIN call.rs :
                       call.rs[k].Key # dfsPath(call.doc.members[i].segs, 1, <<>>))
                      => call.outDoc[i].leaf = call.doc.members[i].leaf

\* C13: for every JSON document, DeIdentifyJSONByResult applied to the
\* document and the results DetectJSON finds in it returns the document
\* DeIdentifyJSON returns: each detected leaf with its matched region
\* replaced by the mask text and the rest of the value kept.
ByResultOfDetectEqualsDeIdentifyJSON ==
    (/\ pc = "done" /\ call.op = "DeIdentifyJSON"
     /\ call.status = "return" /\ call.err = "nil" /\ ~call.recovered)
       => call.outDoc =
            dfsJSONDeIdentify(call.doc.members, resultsToMap(EmptyMap, call.results, 1))

\* C14: preprocessing a line (escape unquoting, then wide-character
\* normalisation) returns a byte sequence of the same length, and every
\* byte it changes belongs to a two-byte backslash escape of the line or to
\* a full-width punctuation rune of the line that wideCharMap maps.
PreprocessingKeepsLengthAndFrame ==
    (pc = "done" /\ call.op = "detectPre")
       => LET RECURSIVE escapes(_)
              \* the positions of the escapes a left-to-right scan pairs up
              escapes(i) ==
                  IF i >= Len(mIn) THEN {}
                  ELSE IF mIn[i] = ChBackslash THEN {i, i + 1} \cup escapes(i + 2)
                       ELSE escapes(i + 1)
              inWide(k) ==
                  \E s \in 1..Len(mIn) :
                      /\ k \in s..(s + 2)
                      /\ DecodeRune(mIn, s - 1).width = 3
                      /\ DecodeRune(mIn, s - 1).r \in DOMAIN wideCharMap
          IN /\ Len(mOut) = Len(mIn)
             /\ \A k \in DOMAIN mIn :
                   mOut[k] # mIn[k] => (k \in escapes(1) \/ inWide(k))

\* C14 witness: a line with an escape and a full-width colon, both rewritten
PreprocessingRewritesEscapeAndWideRune ==
    /\ pc = "done" /\ call.op = "detectPre"
    /\ mIn = <<ChBackslash, 110, 239, 188, 154>>
    /\ mOut = <<ChSpace, ChLF, ChSpace, ChSpace, ChColon>>

\* C15: for every CHAR mask rule and every text, the masked output has the
\* byte length of the text, every byte of the text that is in the rule's
\* ignore_char_set or in one of its ignore kinds is left unchanged, and
\* every changed byte equals the replacement byte (value[0], or '*' when
\* value is empty).
CharMaskKeepsLengthAndIgnored ==
    (pc = "done" /\ call.op = "maskCharImpl")
       => LET rule == mIn[1]
              r == mOut[1]
              in == call.text
              ch == IF Len(rule.Value) > 0 THEN rule.Value[1] ELSE ChStar
              kinds(K) ==
                  (IF "NUMERIC" \in K THEN Digits ELSE {})
                    \cup (IF "WHITESPACE" \in K THEN WhiteSpace ELSE {})
                    \cup (IF "PUNCTUATION" \in K THEN Punctuation ELSE {})
              ignored == rule.IgnoreCharSet \cup kinds(rule.IgnoreKind)
          IN /\ ~r.panic
             /\ Len(r.out) = Len(in)
             /\ \A k \in DOMAIN in :
                   /\ in[k] \in ignored => r.out[k] = in[k]
                   /\ r.out[k] # in[k] => r.out[k] = ch

\* C16: CHAR masking returns a result for every text and every combination
\* of offset, padding, length and reverse.  Forward it replaces the
\* positions of [max(offset,0), |text|-padding), the first length of them
\* when length > 0; in reverse it replaces the positions from |text|-1-offset
\* (|text|-1 by default) down to max(padding,0), the last length of them
\* when length > 0.  Bytes in the ignore set are kept.
CharMaskWindow ==
    (pc = "done" /\ call.op = "maskCharImpl")
       => LET rule == mIn[1]
              r == mOut[1]
              in == call.text
              sz == Len(in)
              ch == IF Len(rule.Value) > 0 THEN rule.Value[1] ELSE ChStar
              ignored == NewWorker(rule).IgnoreCharSet
              lo == IF rule.Reverse THEN Max(rule.Padding, 0) ELSE Max(rule.Offset, 0)
              hi == IF rule.Reverse
                    THEN (IF rule.Offset >= 0 THEN sz - 1 - rule.Offset ELSE sz - 1)
                    ELSE (IF rule.Padding >= 0 THEN sz - rule.Padding ELSE sz) - 1
              \* 0-based positions
              window == {i \in lo..hi :
                           rule.Length > 0 =>
                              IF rule.Reverse THEN hi - i < rule.Length
                              ELSE i - lo < rule.Length}
          IN /\ ~r.panic /\ r.err = "nil"
             /\ Len(r.out) = sz
             /\ \A i \in 0..(sz - 1) :
                   r.out[i + 1] = IF i \in window /\ in[i + 1] \notin ignored
                                  THEN ch ELSE in[i + 1]

\* C17: the algorithm verifiers reject all-zero and malformed texts.
\* CREDITCARD rejects every text whose length without '-' is outside 13..19
\* and every all-'0' text; ABAROUTING rejects every text whose length without
\* '-' is not 9 and the all-'0' text; IDCARD rejects every text whose length
\* is not 18 and the all-'0' text; a text of digits (with a last 'X' for
\* IDCARD) that passes satisfies the checksum: Luhn, the weights
\* [3,7,1,3,7,1,3,7,1] mod 10, MOD 11-2.
VerifiersRejectZeroAndMalformed ==
    (pc = "done" /\ call.op \in {"verifyByIDCard", "verifyByCreditCard", "verifyByABARouting"})
       => LET pass == mOut[1]
              s == SelectSeq(mIn, LAMBDA c : c # ChDash)
              n == Len(s)
              d(k) == s[k] - 48
              allZero(t) == Len(t) > 0 /\ \A k \in DOMAIN t : t[k] = 48
              allDigits(t) == \A k \in DOMAIN t : t[k] \in 48..57
              RECURSIVE sum(_, _)
              sum(f, k) == IF k > n THEN 0 ELSE f[k] + sum(f, k + 1)
              \* Luhn: every second digit from the right doubled, its digits added
              luhnTerm == [k \in 1..n |->
                             IF (n - k) % 2 = 1
                             THEN ((2 * d(k)) \div 10) + ((2 * d(k)) % 10)
                             ELSE d(k)]
              abaTerm == [k \in 1..n |-> <<3, 7, 1>>[((k - 1) % 3) + 1] * d(k)]
              idWeight == [k \in 1..17 |-> (2 ^ (18 - k)) % 11]
              idTerm == [k \in 1..n |-> IF k <= 17 THEN idWeight[k] * d(k) ELSE 0]
              idCheck == (12 - (sum(idTerm, 1) % 11)) % 11
          IN CASE call.op = "verifyByCreditCard" ->
                    /\ (n < 13 \/ n > 19 \/ allZero(s)) => ~pass
                    /\ (pass /\ allDigits(s)) => sum(luhnTerm, 1) % 10 = 0
               [] call.op = "verifyByABARouting" ->
                    /\ (n # 9 \/ allZero(s)) => ~pass
                    /\ (pass /\ allDigits(s)) => sum(abaTerm, 1) % 10 = 0
               [] OTHER ->
                    /\ (Len(mIn) # 18 \/ allZero(mIn)) => ~pass
                    /\ (pass /\ allDigits(SubSeq(mIn, 1, 17)))
                          => mIn[18] = IF idCheck = 10 THEN 88 ELSE 48 + idCheck

\* C18: every result Detect, DetectMap or DetectJSON returns has a
\* non-empty span inside the bytes it refers to: 0 <= ByteStart < ByteEnd
\* <= |input| for a text, <= |value| of the value under the result's key
\* for a map or a JSON document.
ResultSpansNonEmptyInRange ==
    (/\ pc = "done" /\ call.op \in {"Detect", "DetectMap", "DetectJSON"}
     /\ call.status = "return" /\ call.err = "nil")
       => \A k \in DOMAIN call.results :
             LET r == call.results[k]
                 values ==
                     CASE call.op = "Detect" -> {call.text}
                       [] call.op = "DetectMap" ->
                             {call.inMap[key] : key \in {x \in DOMAIN call.inMap :
                                                             ToLower(x) = r.Key}}
                       [] OTHER ->
                             {LeafText(call.doc.members[i]) :
                                 i \in {j \in DOMAIN call.doc.members :
                                           LeafPath(call.doc.members[j]) = r.Key}}
             IN /\ 0 <= r.ByteStart
                /\ r.ByteStart < r.ByteEnd
                /\ \E v \in values : r.ByteEnd <= Len(v)

\* C19: the log processor de-identifies the first max_log_input bytes of
\* the text and the first MAX_LOG_ITEM (16) elements of the key/value list.
\* The marker is appended to the text exactly when the text is longer than
\* max_log_input bytes, and a marker pair to the list exactly when the list
\* has more than 16 elements; a text or a list within its limit comes back
\* complete (every key with its de-identified value) and without marker.
LogProcessorLimits ==
    (pc = "done" /\ call.op = "LogProcessor" /\ ~call.recovered)
       => LET rawLog == call.text
              kvs == mIn
              long == Len(rawLog) > DefMaxLogInput
              many == Len(kvs) > DefaultMaxLogItem
              head == IF long THEN SubSeq(rawLog, 1, DefMaxLogInput) ELSE rawLog
              masked(t) == deIdentifyImpl(detectorMap, maskerMap, isForLog,
                                          DefMaxRegexRuleID, t).out
              read == IF many THEN DefaultMaxLogItem ELSE Len(kvs) - (Len(kvs) % 2)
              keysIn == {kvs[i] : i \in {j \in 1..read : j % 2 = 1}}
              pairsOut == IF many THEN Len(mOut) - 2 ELSE Len(mOut)
              keysOut == {mOut[i] : i \in {j \in 1..pairsOut : j % 2 = 1}}
          IN /\ call.out = masked(head) \o (IF long THEN DefaultLimitError ELSE <<>>)
             /\ pairsOut >= 0 /\ pairsOut <= DefaultMaxLogItem
             /\ keysOut = keysIn
             /\ many => /\ mOut[Len(mOut) - 1] = LimitErrorKey
                        /\ mOut[Len(mOut)] = DefaultLimitError
             /\ \A i \in 1..pairsOut : mOut[i] # DefaultLimitError

\* C20: detection is deterministic.  The results a call of Detect,
\* DetectMap or DetectJSON returned are the results, in the same order,
\* that the same call on the same input returns under every other
\* iteration order over the keys of the input map (the lower-cased map of
\* DetectMap, the path map of DetectJSON).
DetectionIsDeterministic ==
    (/\ pc = "done" /\ call.op \in {"Detect", "DetectMap", "DetectJSON"}
     /\ call.status = "return" /\ call.err = "nil" /\ ~call.recovered)
       => LET same(d) == ~d.panic /\ d.results = call.results
          IN CASE call.op = "Detect" ->
                    same(detectImpl(detectorMap, maskerMap, isForLog,
                                    DefMaxRegexRuleID, call.text))
               [] call.op = "DetectMap" ->
                    \A inMap \in LowerMaps(call.inMap) :
                       \A keys \in PermsOf(DOMAIN inMap) :
                          same(detectMapImpl(detectorMap, maskerMap, inMap, keys))
               [] OTHER ->
                    \A kv \in dfsJSONDetect(call.doc.members) :
                       \A keys \in PermsOf(DOMAIN kv) :
                          same(detectJSONImpl(detectorMap, maskerMap, kv, keys))

\* C21: the key dictionary test is case-insensitive on every entry point,
\* so DeIdentifyMap treats a key as DetectMap does: for every key k of the
\* map, the rules DeIdentifyMap masked the value of k for are the rules
\* DetectMap reports a result for under the lower-cased k.
DeIdentifyMapHitsKeysLikeDetectMap ==
    (/\ pc = "done" /\ call.op = "DeIdentifyMap"
     /\ call.status = "return" /\ call.err = "nil" /\ ~call.recovered)
       => \A lm \in LowerMaps(call.inMap) : \A keys \in PermsOf(DOMAIN lm) :
             LET det == detectMapImpl(detectorMap, maskerMap, lm, keys)
                 rules(rs, key) == {rs[i].RuleID : i \in {j \in DOMAIN rs : rs[j].Key = key}}
             IN /\ ~det.panic
                /\ \A k \in DOMAIN call.inMap :
                      rules(call.results, k) = rules(det.results, ToLower(k))

\* C22: a string leaf that holds both braces or both brackets but does not
\* parse as JSON is handled as plain text: DetectJSON reports for its path
\* the results the leaf's text gives as a map value under that path, and
\* DeIdentifyJSON returns the leaf with those results masked.
UnparsableLeafHandledAsPlainText ==
    (/\ pc = "done" /\ call.op \in {"DetectJSON", "DeIdentifyJSON"}
     /\ call.status = "return" /\ call.err = "nil" /\ ~call.recovered)
       => \A i \in DOMAIN call.doc.members :
             LET m == call.doc.members[i]
                 path == dfsPath(m.segs, 1, <<>>)
                 plain == deIdentifyMapImpl(detectorMap, maskerMap, path :> m.leaf, <<path>>)
                 under(rs) == SelectSeq(rs, LAMBDA r : r.Key = path)
             IN (maybeJSON(m.leaf) /\ ~UnmarshalNested(m.leaf).ok)
                   => /\ under(call.results) = under(plain.results)
                      /\ call.op = "DeIdentifyJSON" => call.outDoc[i].leaf = plain.map[path]

\* C23: for a rule with no c_reg, verification by context accepts a match
\* exactly when some occurrence of a non-empty c_dict word, lower-cased, in
\* the lower-cased window of DefContextRange bytes either side of the match
\* has no ASCII letter just before it and none just after it in the window
\* (each neighbour is absent, part of a multi-byte character or another
\* byte), every occurrence being judged by its neighbours in the window.
ContextAcceptsWholeWordOccurrence ==
    (pc = "done" /\ call.op = "verifyByContext")
        => LET w == contextWindow(mIn[2], mIn[3])
               window == ToLower(Slice(mIn[2], w.st, w.ed))
               occursWhole(word, p) ==
                   /\ Slice(window, p, p + Len(word)) = word
                   /\ (p = 0 \/ ~isLetter(window[p]))
                   /\ (p + Len(word) = Len(window) \/ ~isLetter(window[p + Len(word) + 1]))
           IN /\ ~mOut[1].panic
              /\ mOut[1].ok <=>
                    \E i \in DOMAIN mIn[1] :
                       /\ mIn[1][i] # <<>>
                       /\ \E p \in 0..(Len(window) - Len(mIn[1][i])) :
                             occursWhole(ToLower(mIn[1][i]), p)

\* C24: in log-only mode no masking of the log processor comes from a rule
\* that uses a regex and has an id above the cutoff: neither the results
\* behind the de-identified log text nor the results behind the masked kv
\* values, in whatever order the kv map is walked, come from such a rule.
LogProcessorSkipsRegexRulesAboveCutoff ==
    (/\ pc = "done" /\ call.op = "LogProcessor" /\ ~call.recovered)
       => LET sz == LogItems(mIn)
              barred(rs) == \E i \in DOMAIN rs :
                               /\ rs[i].RuleID > DefMaxRegexRuleID
                               /\ UseRegex(detectorMap[rs[i].RuleID])
              head == IF Len(call.text) >= DefMaxLogInput
                      THEN SubSeq(call.text, 1, DefMaxLogInput) ELSE call.text
          IN /\ ~barred(deIdentifyImpl(detectorMap, maskerMap, isForLog,
                                       DefMaxRegexRuleID, head).results)
             /\ sz > 0 =>
                   \A keys \in PermsOf(DOMAIN LogMap(mIn, sz)) :
                      ~barred(deIdentifyMapImpl(detectorMap, maskerMap,
                                                LogMap(mIn, sz), keys).results)

\* C25: MaskStruct terminates on every input, also on objects that reach
\* themselves through tagged pointer, struct or slice fields: the nested
\* calls of maskStructImpl carry the levels DefMaxCallDeep, DefMaxCallDeep
\* - 1, ... down to 0, so that no more than DefMaxCallDeep calls are at
\* work on a field; a call at level 0 returns without reading or changing
\* anything; and every walk that began comes to its end.
MaskStructBoundedDepthAndTerminates ==
    /\ [](pc = "walk" =>
             /\ Len(mOut.stack) <= DefMaxCallDeep + 1
             /\ \A k \in DOMAIN mOut.stack :
                   /\ mOut.stack[k].level = DefMaxCallDeep - (k - 1)
                   /\ mOut.stack[k].level = 0 => mOut.stack[k].i = 0)
    /\ [][(pc = "walk" /\ mOut.stack[Len(mOut.stack)].level = 0)
             => /\ mOut'.heap = mOut.heap
                /\ mOut'.err = mOut.err
                /\ mOut'.stack = SubSeq(mOut.stack, 1, Len(mOut.stack) - 1)]_vars
    /\ (pc = "walk") ~> (pc = "done")

\* C25 witness: the walk of an object whose tagged pointer leads back to
\* itself has reached the call at level 0, with DefMaxCallDeep calls
\* waiting above it and the string of the object masked.
MaskStructCycleCutAtLevelZero ==
    /\ pc = "walk" /\ call.op = "maskStructImpl"
    /\ mIn[1] = StructHeap("self", 1)
    /\ Len(mOut.stack) = DefMaxCallDeep + 1
    /\ mOut.stack[Len(mOut.stack)].level = 0
    /\ mOut.stack[Len(mOut.stack)].ptr = 1
    /\ mOut.heap[1][1].str # StructText

\* C26: when several results lie on one map value of DeIdentifyMap or on
\* one plain leaf of DeIdentifyJSON and no two of them overlap, the value
\* returned is the original in which every region [ByteStart, ByteEnd) of
\* the original is replaced by the MaskText of its result, whatever the
\* lengths of the mask texts.
EveryRegionOfOriginalReplaced ==
    (/\ pc = "done" /\ call.op \in {"DeIdentifyMap", "DeIdentifyJSON"}
     /\ call.status = "return" /\ call.err = "nil" /\ ~call.recovered)
       => LET on(key) == SelectSeq(call.results, LAMBDA r : r.Key = key)
              apart(rs) == \A i, j \in DOMAIN rs :
                              i < j => \/ rs[i].ByteEnd <= rs[j].ByteStart
                                       \/ rs[j].ByteEnd <= rs[i].ByteStart
              last(rs, I) == CHOOSE i \in I : \A j \in I :
                                \/ rs[j].ByteStart < rs[i].ByteStart
                                \/ /\ rs[j].ByteStart = rs[i].ByteStart
                                   /\ \/ rs[j].ByteEnd < rs[i].ByteEnd
                                      \/ rs[j].ByteEnd = rs[i].ByteEnd /\ j <= i
              \* the regions replaced from the right end of the value
              RECURSIVE replaced(_, _, _)
              replaced(orig, rs, I) ==
                  IF I = {} THEN orig
                  ELSE LET r == rs[last(rs, I)]
                       IN replaced(Slice(orig, 0, r.ByteStart) \o r.MaskText
                                      \o Slice(orig, r.ByteEnd, Len(orig)),
                                   rs, I \ {last(rs, I)})
              expected(orig, rs) == replaced(orig, rs, DOMAIN rs)
              several(orig, rs) ==
                  /\ Len(rs) >= 2 /\ apart(rs)
                  /\ \A i \in DOMAIN rs : rs[i].ByteEnd <= Len(orig)
          IN /\ call.op = "DeIdentifyMap" =>
                   \A k \in DOMAIN call.inMap :
                      several(call.inMap[k], on(k))
                         => call.outMap[k] = expected(call.inMap[k], on(k))
             /\ call.op = "DeIdentifyJSON" =>
                   \A i \in DOMAIN call.doc.members :
                      LET m == call.doc.members[i]
                          path == dfsPath(m.segs, 1, <<>>)
                      IN (~maybeJSON(m.leaf) /\ several(m.leaf, on(path)))
                            => call.outDoc[i].leaf = expected(m.leaf, on(path))

\* C27: DeIdentify on a text copies no matched byte to its output, for
\* every result list Detect returns, results nested under different keys
\* included: the output is, result by result, the input bytes between the
\* furthest end of the results so far and the start of the result (none
\* when the result starts before that end), then its MaskText, and at last
\* the input bytes after the furthest end; the copy position never moves
\* backwards.
DeIdentifyCopiesNoMatchedByte ==
    (/\ pc = "done" /\ call.op = "DeIdentify"
     /\ call.status = "return" /\ call.err = "nil" /\ ~call.recovered)
       => LET RECURSIVE outside(_, _, _, _)
              outside(in, arr, k, pos) ==
                  IF k > Len(arr) THEN Slice(in, Min(pos, Len(in)), Len(in))
                  ELSE Slice(in, pos, Min(arr[k].ByteStart, Len(in))) \o arr[k].MaskText
                          \o outside(in, arr, k + 1, Max(pos, arr[k].ByteEnd))
              covered(p) == \E i \in DOMAIN call.results :
                               /\ call.results[i].ByteStart <= p
                               /\ p < call.results[i].ByteEnd
              masks == Flatten([i \in DOMAIN call.results |-> call.results[i].MaskText])
          IN /\ call.out = outside(call.text, call.results, 1, 0)
             /\ Len(call.out) = Len(masks)
                                  + Cardinality({p \in 0..(Len(call.text) - 1) : ~covered(p)})

\* C28: the dictionary scan of byte detection terminates for every v_dict
\* word, the empty word included: every round that finds the word moves
\* the scan position strictly forward, and every scan that began ends.
DictScanProgressesAndEnds ==
    /\ [][(pc = "scan" /\ pc' = "scan") => mOut'.currStart > mOut.currStart]_vars
    /\ (pc = "scan") ~> (pc = "done")

\* C29: whenever verification by context runs, its window is a valid range
\* of the context bytes that contains the match: 0 <= st <= ed <= length
\* of the context bytes, and st <= ByteStart and ByteEnd <= ed; this also
\* for the results of inline pairs, whose offsets were moved by the place
\* of the value in the line before they are verified against the value.
ContextWindowValidAndHoldsMatch ==
    (pc = "done" /\ call.op \in {"verifyByContext", "doDetectKV"})
        => LET w == contextWindow(mIn[2], mIn[3])
           IN /\ 0 <= w.st /\ w.st <= w.ed /\ w.ed <= Len(mIn[2])
              /\ w.st <= mIn[3].ByteStart /\ mIn[3].ByteEnd <= w.ed
              /\ ~mOut[1].panic

\* C30: engines are independent: whatever configurations the second engine
\* loads and whatever log processors are called in between, the log
\* processor of the first engine cuts its text at the max_log_input of the
\* first engine's own configuration and skips the regex rules above that
\* configuration's max_regex_rule_id.
LogLimitsAreTheEnginesOwn ==
    (/\ pc = "done" /\ call.op = "LogProcessor" /\ ~call.recovered
     /\ \E i \in PairOwnConfigs : confObj = PairConfObj(i))
       => LET c == PairConfigs[confObj - PairConfObj(0)]
              logCut == Len(call.text) >= c.MaxLogInput
              own == deIdentifyImpl(detectorMap, maskerMap, isForLog, c.MaxRegexRuleID,
                                    IF logCut THEN SubSeq(call.text, 1, c.MaxLogInput)
                                    ELSE call.text)
          IN /\ ~own.panic
             /\ call.out = own.out \o (IF logCut THEN DefaultLimitError ELSE <<>>)
====
